---- MODULE Spec2Model ----
(***************************************************************************)
(* The position ledger of the trading bot: bot.PositionTracker (bot.py)    *)
(* and portfolio.PositionTracker (portfolio.py).  One tracker instance is  *)
(* modelled; impl says which of the two classes it is an instance of.      *)
(*                                                                         *)
(* Money, prices and quantities are Python floats in the source.  They are *)
(* modelled as exact rationals <<numerator, denominator>> in lowest terms  *)
(* with a positive denominator, so that every equality below is an         *)
(* equality of real numbers; floating-point rounding is not modelled.      *)
(***************************************************************************)
EXTENDS Integers, Sequences, FiniteSets, TLC

(***************************************************************************)
(* Exact rational arithmetic.                                              *)
(***************************************************************************)
RECURSIVE Gcd(_, _)
Gcd(a, b) == IF b = 0 THEN a ELSE Gcd(b, a % b)

Abs(n) == IF n < 0 THEN -n ELSE n

Norm(n, d) ==
    LET g == Gcd(Abs(n), d)
    IN  <<n \div g, d \div g>>

Rat(n) == <<n, 1>>

Frac(n, d) == Norm(n, d)

\* the sum is taken over the least common denominator
Add(a, b) ==
    LET g == Gcd(a[2], b[2])
    IN  Norm(a[1] * (b[2] \div g) + b[1] * (a[2] \div g), (a[2] \div g) * b[2])

Neg(a) == <<-a[1], a[2]>>

Sub(a, b) == Add(a, Neg(b))

\* the factors are cross-reduced, which leaves the product in lowest terms
Mul(a, b) ==
    LET g1 == Gcd(Abs(a[1]), b[2])
        g2 == Gcd(Abs(b[1]), a[2])
    IN  <<(a[1] \div g1) * (b[1] \div g2), (a[2] \div g2) * (b[2] \div g1)>>

\* a / b for b > 0
Div(a, b) == Mul(a, <<b[2], b[1]>>)

\* n1/d1 < n2/d2 for n1, n2 >= 0 and d1, d2 > 0, decided on the integer parts
\* and then on the reciprocals of the fractional parts: no product is formed
RECURSIVE LtPos(_, _, _, _)
LtPos(n1, d1, n2, d2) ==
    IF n1 \div d1 # n2 \div d2 THEN n1 \div d1 < n2 \div d2
    ELSE IF n2 % d2 = 0 THEN FALSE
    ELSE IF n1 % d1 = 0 THEN TRUE
    ELSE LtPos(d2, n2 % d2, d1, n1 % d1)

Lt(a, b) ==
    IF a[1] < 0 /\ b[1] >= 0 THEN TRUE
    ELSE IF a[1] >= 0 /\ b[1] < 0 THEN FALSE
    ELSE IF a[1] < 0 THEN LtPos(-b[1], b[2], -a[1], a[2])
    ELSE LtPos(a[1], a[2], b[1], b[2])

Le(a, b) == ~Lt(b, a)

Min(a, b) == IF Le(a, b) THEN a ELSE b

Zero == Rat(0)

\* Python's None (atr_value=None, trailing_stop_price=None)
None == <<>>

(***************************************************************************)
(* Program constants (bot.py 18-24, constants.py 28-44).                   *)
(***************************************************************************)
STARTING_BALANCE_USD == 1000

MAX_POSITIONS == 4

MIN_TRADE_SIZE == 50

MAX_EXPOSURE == Frac(75, 100)

\* fault: half of the balance may go into one trade
MAX_PER_TRADE_half == Frac(50, 100)

MAX_PER_TRADE == Frac(25, 100)

RISK_PER_TRADE == Frac(2, 100)

TIER_1_EXIT_PERCENTAGE == Frac(30, 100)

TIER_2_EXIT_PERCENTAGE == Frac(30, 100)

\* the "fully closed" thresholds: bot.py 244 (0.0001), portfolio.py 152 (0.001)
BotCloseThreshold == Frac(1, 10000)

PortfolioCloseThreshold == Frac(1, 1000)

(***************************************************************************)
(* Bounds of the model: the inputs the operations are called with and the  *)
(* number of transactions (calls that change the ledger).                  *)
(***************************************************************************)
MaxTransactions == 3

\* four of TIER_1_PAIRS
Pairs == {"BTC-USD", "ETH-USD", "XRP-USD", "ADA-USD"}

\* the prices a pair is quoted at: a high-priced instrument and low-priced ones
Prices(pair) ==
    IF pair = "BTC-USD" THEN {Rat(125000)}
    ELSE IF pair = "ETH-USD" THEN {Rat(12), Rat(15)}
    ELSE {Rat(12)}

\* the ATR a pair is bought with: none, or one third of the price of the
\* low-priced pairs
AtrValues(pair) == IF pair = "BTC-USD" THEN {None} ELSE {None, Rat(4)}

Percentages == {Frac(30, 100)}

TierNames == {"TIER_1", "TIER_2"}

Tiers == {1, 2, 3}

\* the pairs run_bot goes through, in order: TRADE_PAIRS set to two of
\* TIER_1_PAIRS, one with a CONFIG entry and one on CONFIG["DEFAULT"]
TRADING_PAIRS == <<"ETH-USD", "DOGE-USD">>

VARIABLES
    impl,             \* "bot" or "portfolio": the class of the tracker
    positions,        \* self.positions: a dict, pair -> position record
    trade_history,    \* self.trade_history: a list of trade records
    total_pnl,        \* self.total_pnl
    cash_balance,     \* self.cash_balance
    starting_balance, \* self.starting_balance
    call,             \* the last method call: its name, its return value
                      \* and whether it changed the ledger
    transactions,     \* the number of calls so far that changed the ledger
    replaced,         \* whether an open_position call replaced a position
    now,              \* datetime.now(timezone.utc).timestamp(), in seconds
    last_signals,     \* signal_throttle.last_signals: pair -> timestamp
    decision,         \* the last analyze_and_trade call: its inputs and the
                      \* action it decided
    cycle,            \* the present run_bot call: the pairs still to process,
                      \* the pairs whose processing raised, and how
                      \* print_summary ended ("pending" before it is called)
    status,           \* the /status handler in the Flask thread: how many
                      \* fields of its dict it has read, and their values
    main              \* main_loop and the trading thread: where it stands,
                      \* loop_count, and the cycles started

vars == <<impl, positions, trade_history, total_pnl, cash_balance,
          starting_balance, call, transactions, replaced, now, last_signals,
          decision, cycle, status, main>>

throttle == <<now, last_signals>>

\* the state of bot.py outside the tracker
loop == <<now, last_signals, decision, cycle, status, main>>

ledger == <<positions, trade_history, total_pnl, cash_balance, starting_balance>>

\* dict operations on self.positions
Put(d, k, v) == [x \in (DOMAIN d) \cup {k} |-> IF x = k THEN v ELSE d[x]]

\* fault: the closed position is emptied but stays in the dict
DelEmptied(d, k) ==
    [x \in DOMAIN d |->
        IF x # k THEN d[x]
        ELSE IF impl = "bot" THEN [d[x] EXCEPT !.current_quantity = Zero]
        ELSE [d[x] EXCEPT !.remaining_quantity = Zero]]

\* del self.positions[pair]
Del(d, k) == [x \in (DOMAIN d) \ {k} |-> d[x]]

\* __init__ of either class; bot.py falls back to these values when the
\* account balances cannot be fetched (sync_with_coinbase, else branch)
Init ==
    /\ impl \in {"bot", "portfolio"}
    /\ positions = [x \in {} |-> None]
    /\ trade_history = <<>>
    /\ total_pnl = Zero
    /\ cash_balance = Rat(STARTING_BALANCE_USD)
    /\ starting_balance = Rat(STARTING_BALANCE_USD)
    /\ call = [op |-> "__init__", value |-> None, effect |-> TRUE]
    /\ transactions = 0
    /\ replaced = FALSE
    /\ now = 0
    /\ last_signals = [x \in {} |-> None]
    /\ decision = None
    /\ cycle = [todo |-> TRADING_PAIRS, raised |-> {}, summary |-> "pending"]
    /\ status = [read |-> 0]
    /\ main = [pc |-> "start", loop_count |-> 0, consistent |-> {}]

(***************************************************************************)
(* bot.PositionTracker (bot.py 38-330).                                    *)
(***************************************************************************)
RECURSIVE BotPositionValue(_)
\* sum(pos["entry_price"] * pos["current_quantity"] for pos in positions.values())
BotPositionValue(S) ==
    IF S = {} THEN Zero
    ELSE LET k == CHOOSE x \in S : TRUE
         IN  Add(Mul(positions[k].entry_price, positions[k].current_quantity),
                 BotPositionValue(S \ {k}))

bot_calculate_total_balance ==
    Add(cash_balance, BotPositionValue(DOMAIN positions))

\* fault: max() written for min()
bot_max_trade_usd_max(total_balance) ==
    LET used_exposure == Sub(total_balance, cash_balance)
        available_exposure == Sub(Mul(MAX_EXPOSURE, total_balance), used_exposure)
        per_trade == Mul(MAX_PER_TRADE, total_balance)
    IN  IF Le(available_exposure, per_trade) THEN per_trade ELSE available_exposure

\* used_exposure, available_exposure and max_trade_usd of calculate_position_size
bot_max_trade_usd(total_balance) ==
    LET used_exposure == Sub(total_balance, cash_balance)
        available_exposure == Sub(Mul(MAX_EXPOSURE, total_balance), used_exposure)
    IN  Min(available_exposure, Mul(MAX_PER_TRADE, total_balance))

\* fault: the stop distance is taken as one ATR, not 1.5 ATR
bot_stop_loss_pct_one_atr(price, atr_value) == Div(atr_value, price)

\* stop_loss_pct = 1.5 * atr_value / price
bot_stop_loss_pct(price, atr_value) == Div(Mul(Frac(15, 10), atr_value), price)

\* fault: the minimum trade size is not checked
bot_calculate_position_size_any_size(price, atr_value) ==
    LET total_balance == bot_calculate_total_balance
        max_trade_usd == bot_max_trade_usd(total_balance)
        cash_capped == IF Lt(cash_balance, max_trade_usd) THEN cash_balance
                       ELSE max_trade_usd
        risk_usd == Mul(total_balance, RISK_PER_TRADE)
        stop_loss_pct == bot_stop_loss_pct(price, atr_value)
        risk_capped ==
            IF atr_value # None /\ Lt(Zero, atr_value) /\ Lt(Zero, stop_loss_pct)
            THEN Min(cash_capped, Div(risk_usd, stop_loss_pct))
            ELSE cash_capped
    IN  IF Cardinality(DOMAIN positions) >= MAX_POSITIONS
        THEN [quantity |-> Zero, reason |-> "Max positions reached"]
        ELSE [quantity |-> Div(risk_capped, price), reason |-> "Position size"]

\* fault: the number of positions is not checked
bot_calculate_position_size_no_limit(price, atr_value) ==
    LET total_balance == bot_calculate_total_balance
        max_trade_usd == bot_max_trade_usd(total_balance)
        cash_capped == IF Lt(cash_balance, max_trade_usd) THEN cash_balance
                       ELSE max_trade_usd
        risk_usd == Mul(total_balance, RISK_PER_TRADE)
        stop_loss_pct == bot_stop_loss_pct(price, atr_value)
        risk_capped ==
            IF atr_value # None /\ Lt(Zero, atr_value) /\ Lt(Zero, stop_loss_pct)
            THEN Min(cash_capped, Div(risk_usd, stop_loss_pct))
            ELSE cash_capped
    IN  IF Lt(max_trade_usd, Rat(MIN_TRADE_SIZE))
        THEN [quantity |-> Zero, reason |-> "Trade size too small"]
        ELSE [quantity |-> Div(risk_capped, price), reason |-> "Position size"]

\* returns (quantity, reason); the reason is kept up to its first colon
bot_calculate_position_size(price, atr_value) ==
    LET total_balance == bot_calculate_total_balance
        max_trade_usd == bot_max_trade_usd(total_balance)
        cash_capped == IF Lt(cash_balance, max_trade_usd) THEN cash_balance
                       ELSE max_trade_usd
        risk_usd == Mul(total_balance, RISK_PER_TRADE)
        stop_loss_pct == bot_stop_loss_pct(price, atr_value)
        risk_capped ==
            IF atr_value # None /\ Lt(Zero, atr_value) /\ Lt(Zero, stop_loss_pct)
            THEN Min(cash_capped, Div(risk_usd, stop_loss_pct))
            ELSE cash_capped
    IN  IF Cardinality(DOMAIN positions) >= MAX_POSITIONS
        THEN [quantity |-> Zero, reason |-> "Max positions reached"]
        ELSE IF Lt(max_trade_usd, Rat(MIN_TRADE_SIZE))
        THEN [quantity |-> Zero, reason |-> "Trade size too small"]
        ELSE [quantity |-> Div(risk_capped, price), reason |-> "Position size"]

\* fault: the price is left out of the trade value
bot_trade_value_units(quantity, price) == quantity

\* trade_value = quantity * price
bot_trade_value(quantity, price) == Mul(quantity, price)

\* the two early returns of open_position
bot_open_refused(quantity, price) ==
    Le(quantity, Zero) \/ Lt(cash_balance, bot_trade_value(quantity, price))

\* fault: the cost debited is the trade value times the price
bot_open_position_overdrawn(pair, price, atr_value) ==
    LET quantity == bot_calculate_position_size(price, atr_value).quantity
        trade_value == bot_trade_value(quantity, price)
    IN  IF bot_open_refused(quantity, price)
        THEN /\ call' = [op |-> "open_position", value |-> FALSE, effect |-> FALSE]
             /\ UNCHANGED <<impl, ledger>>
        ELSE /\ positions' = Put(positions, pair,
                    [entry_price |-> price,
                     original_quantity |-> quantity,
                     current_quantity |-> quantity,
                     tier_1_sold |-> Zero,
                     tier_2_sold |-> Zero,
                     tier_1_executed |-> FALSE,
                     tier_2_executed |-> FALSE,
                     highest_price |-> price,
                     trailing_stop_price |-> None,
                     unrealized_pnl |-> Zero])
             /\ cash_balance' = Sub(cash_balance, Mul(trade_value, price))
             /\ trade_history' = Append(trade_history,
                    [pair |-> pair, action |-> "BUY", entry_price |-> price,
                     exit_price |-> "", quantity |-> quantity,
                     pnl_usd |-> "", pnl_percent |-> ""])
             /\ call' = [op |-> "open_position", value |-> TRUE, effect |-> TRUE]
             /\ UNCHANGED <<impl, total_pnl, starting_balance>>

bot_open_position(pair, price, atr_value) ==
    LET quantity == bot_calculate_position_size(price, atr_value).quantity
        trade_value == bot_trade_value(quantity, price)
    IN  IF bot_open_refused(quantity, price)
        THEN /\ call' = [op |-> "open_position", value |-> FALSE, effect |-> FALSE]
             /\ UNCHANGED <<impl, ledger>>
        ELSE /\ positions' = Put(positions, pair,
                    [entry_price |-> price,
                     original_quantity |-> quantity,
                     current_quantity |-> quantity,
                     tier_1_sold |-> Zero,
                     tier_2_sold |-> Zero,
                     tier_1_executed |-> FALSE,
                     tier_2_executed |-> FALSE,
                     highest_price |-> price,
                     trailing_stop_price |-> None,
                     unrealized_pnl |-> Zero])
             /\ cash_balance' = Sub(cash_balance, trade_value)
             /\ trade_history' = Append(trade_history,
                    [pair |-> pair, action |-> "BUY", entry_price |-> price,
                     exit_price |-> "", quantity |-> quantity,
                     pnl_usd |-> "", pnl_percent |-> ""])
             /\ call' = [op |-> "open_position", value |-> TRUE, effect |-> TRUE]
             /\ UNCHANGED <<impl, total_pnl, starting_balance>>

\* partial_close_position on a tracker whose positions are held
bot_partial_close_held(held, pair, exit_price, percentage, tier_name, reason) ==
    IF pair \notin DOMAIN held
    THEN /\ call' = [op |-> "partial_close_position", value |-> Zero, effect |-> FALSE]
         /\ positions' = held
         /\ UNCHANGED <<impl, trade_history, total_pnl, cash_balance,
                        starting_balance>>
    ELSE
    LET position == held[pair]
        entry_price == position.entry_price
        current_quantity == position.current_quantity
        original_quantity == position.original_quantity
        wanted == Mul(original_quantity, percentage)
        sell_quantity == IF Lt(current_quantity, wanted) THEN current_quantity
                         ELSE wanted
        sale_proceeds == Mul(exit_price, sell_quantity)
        pnl_usd == Mul(Sub(exit_price, entry_price), sell_quantity)
        pnl_percent == Mul(Div(Sub(exit_price, entry_price), entry_price), Rat(100))
        left == Sub(current_quantity, sell_quantity)
        marked ==
            IF tier_name = "TIER_1"
            THEN [position EXCEPT !.current_quantity = left,
                                  !.tier_1_sold = sell_quantity,
                                  !.tier_1_executed = TRUE]
            ELSE IF tier_name = "TIER_2"
            THEN [position EXCEPT !.current_quantity = left,
                                  !.tier_2_sold = sell_quantity,
                                  !.tier_2_executed = TRUE]
            ELSE [position EXCEPT !.current_quantity = left]
    IN  /\ trade_history' = Append(trade_history,
               [pair |-> pair, action |-> reason \o "_" \o tier_name,
                entry_price |-> entry_price,
                exit_price |-> exit_price, quantity |-> sell_quantity,
                pnl_usd |-> pnl_usd, pnl_percent |-> pnl_percent])
        /\ total_pnl' = Add(total_pnl, pnl_usd)
        /\ cash_balance' = Add(cash_balance, sale_proceeds)
        /\ positions' = IF Le(left, BotCloseThreshold)
                        THEN Del(held, pair)
                        ELSE Put(held, pair, marked)
        /\ call' = [op |-> "partial_close_position", value |-> pnl_usd, effect |-> TRUE]
        /\ UNCHANGED <<impl, starting_balance>>

\* called with the default reason, "PARTIAL_SELL"
bot_partial_close_position(pair, exit_price, percentage, tier_name) ==
    bot_partial_close_held(positions, pair, exit_price, percentage, tier_name,
                           "PARTIAL_SELL")

\* fault: the "no position" return comes after the trade is recorded
bot_close_position_recorded(pair, exit_price) ==
    IF pair \notin DOMAIN positions
    THEN /\ trade_history' = Append(trade_history,
                [pair |-> pair, action |-> "SELL", entry_price |-> Zero,
                 exit_price |-> exit_price, quantity |-> Zero,
                 pnl_usd |-> Zero, pnl_percent |-> Zero])
         /\ call' = [op |-> "close_position", value |-> Zero, effect |-> TRUE]
         /\ UNCHANGED <<impl, positions, total_pnl, cash_balance, starting_balance>>
    ELSE
    LET position == positions[pair]
        entry_price == position.entry_price
        quantity == position.current_quantity
        sale_proceeds == Mul(exit_price, quantity)
        pnl_usd == Mul(Sub(exit_price, entry_price), quantity)
        pnl_percent == Mul(Div(Sub(exit_price, entry_price), entry_price), Rat(100))
    IN  /\ trade_history' = Append(trade_history,
               [pair |-> pair, action |-> "SELL", entry_price |-> entry_price,
                exit_price |-> exit_price, quantity |-> quantity,
                pnl_usd |-> pnl_usd, pnl_percent |-> pnl_percent])
        /\ total_pnl' = Add(total_pnl, pnl_usd)
        /\ positions' = Del(positions, pair)
        /\ cash_balance' = Add(cash_balance, sale_proceeds)
        /\ call' = [op |-> "close_position", value |-> pnl_usd, effect |-> TRUE]
        /\ UNCHANGED <<impl, starting_balance>>

\* fault: the profit of the sale is not added to total_pnl
bot_close_held_unbooked(held, pair, exit_price, reason) ==
    IF pair \notin DOMAIN held
    THEN /\ call' = [op |-> "close_position", value |-> Zero, effect |-> FALSE]
         /\ positions' = held
         /\ UNCHANGED <<impl, trade_history, total_pnl, cash_balance,
                        starting_balance>>
    ELSE
    LET position == held[pair]
        entry_price == position.entry_price
        quantity == position.current_quantity
        sale_proceeds == Mul(exit_price, quantity)
        pnl_usd == Mul(Sub(exit_price, entry_price), quantity)
        pnl_percent == Mul(Div(Sub(exit_price, entry_price), entry_price), Rat(100))
    IN  /\ trade_history' = Append(trade_history,
               [pair |-> pair, action |-> reason, entry_price |-> entry_price,
                exit_price |-> exit_price, quantity |-> quantity,
                pnl_usd |-> pnl_usd, pnl_percent |-> pnl_percent])
        /\ total_pnl' = total_pnl
        /\ positions' = Del(held, pair)
        /\ cash_balance' = Add(cash_balance, sale_proceeds)
        /\ call' = [op |-> "close_position", value |-> pnl_usd, effect |-> TRUE]
        /\ UNCHANGED <<impl, starting_balance>>

\* close_position on a tracker whose positions are held
bot_close_held(held, pair, exit_price, reason) ==
    IF pair \notin DOMAIN held
    THEN /\ call' = [op |-> "close_position", value |-> Zero, effect |-> FALSE]
         /\ positions' = held
         /\ UNCHANGED <<impl, trade_history, total_pnl, cash_balance,
                        starting_balance>>
    ELSE
    LET position == held[pair]
        entry_price == position.entry_price
        quantity == position.current_quantity
        sale_proceeds == Mul(exit_price, quantity)
        pnl_usd == Mul(Sub(exit_price, entry_price), quantity)
        pnl_percent == Mul(Div(Sub(exit_price, entry_price), entry_price), Rat(100))
    IN  /\ trade_history' = Append(trade_history,
               [pair |-> pair, action |-> reason, entry_price |-> entry_price,
                exit_price |-> exit_price, quantity |-> quantity,
                pnl_usd |-> pnl_usd, pnl_percent |-> pnl_percent])
        /\ total_pnl' = Add(total_pnl, pnl_usd)
        /\ positions' = Del(held, pair)
        /\ cash_balance' = Add(cash_balance, sale_proceeds)
        /\ call' = [op |-> "close_position", value |-> pnl_usd, effect |-> TRUE]
        /\ UNCHANGED <<impl, starting_balance>>

\* called with the default reason, "SELL"
bot_close_position(pair, exit_price) ==
    bot_close_held(positions, pair, exit_price, "SELL")

(***************************************************************************)
(* portfolio.PositionTracker (portfolio.py 9-255).                         *)
(***************************************************************************)
RECURSIVE PortfolioPositionValue(_)
\* sum(pos["entry_price"] * pos["total_quantity"] for pos in positions.values())
PortfolioPositionValue(S) ==
    IF S = {} THEN Zero
    ELSE LET k == CHOOSE x \in S : TRUE
         IN  Add(Mul(positions[k].entry_price, positions[k].total_quantity),
                 PortfolioPositionValue(S \ {k}))

\* calculate_total_balance(current_prices=None)
portfolio_calculate_total_balance ==
    Add(cash_balance, PortfolioPositionValue(DOMAIN positions))

\* used_exposure, available_exposure and max_trade_usd of calculate_position_size
portfolio_max_trade_usd(total_balance) ==
    LET used_exposure == Sub(total_balance, cash_balance)
        available_exposure == Sub(Mul(MAX_EXPOSURE, total_balance), used_exposure)
    IN  Min(available_exposure, Mul(MAX_PER_TRADE, total_balance))

\* stop_loss_pct = 1.5 * atr_value / price
portfolio_stop_loss_pct(price, atr_value) ==
    Div(Mul(Frac(15, 10), atr_value), price)

\* returns (quantity, reason); the reason is kept up to its first colon
portfolio_calculate_position_size(price, atr_value) ==
    LET total_balance == portfolio_calculate_total_balance
        max_trade_usd == portfolio_max_trade_usd(total_balance)
        cash_capped == IF Lt(cash_balance, max_trade_usd) THEN cash_balance
                       ELSE max_trade_usd
        risk_usd == Mul(total_balance, RISK_PER_TRADE)
        stop_loss_pct == portfolio_stop_loss_pct(price, atr_value)
        risk_capped ==
            IF atr_value # None /\ Lt(Zero, atr_value) /\ Lt(Zero, stop_loss_pct)
            THEN Min(cash_capped, Div(risk_usd, stop_loss_pct))
            ELSE cash_capped
    IN  IF Cardinality(DOMAIN positions) >= MAX_POSITIONS
        THEN [quantity |-> Zero, reason |-> "Max positions reached"]
        ELSE IF Lt(max_trade_usd, Rat(MIN_TRADE_SIZE))
        THEN [quantity |-> Zero, reason |-> "Trade size too small"]
        ELSE [quantity |-> Div(risk_capped, price), reason |-> "Position size"]

\* trade_value = quantity * price
portfolio_trade_value(quantity, price) == Mul(quantity, price)

\* the two early returns of open_position
portfolio_open_refused(quantity, price) ==
    Le(quantity, Zero) \/ Lt(cash_balance, portfolio_trade_value(quantity, price))

portfolio_open_position(pair, price, atr_value) ==
    LET quantity == portfolio_calculate_position_size(price, atr_value).quantity
        trade_value == portfolio_trade_value(quantity, price)
    IN  IF portfolio_open_refused(quantity, price)
        THEN /\ call' = [op |-> "open_position", value |-> FALSE, effect |-> FALSE]
             /\ UNCHANGED <<impl, ledger>>
        ELSE /\ positions' = Put(positions, pair,
                    [entry_price |-> price,
                     total_quantity |-> quantity,
                     remaining_quantity |-> quantity,
                     entry_value |-> trade_value,
                     position_value |-> trade_value,
                     unrealized_pnl |-> Zero,
                     highest_price |-> price,
                     tier_1_sold |-> FALSE,
                     tier_2_sold |-> FALSE,
                     trailing_stop_active |-> FALSE,
                     trailing_stop_price |-> None])
             /\ cash_balance' = Sub(cash_balance, trade_value)
             /\ call' = [op |-> "open_position", value |-> TRUE, effect |-> TRUE]
             /\ UNCHANGED <<impl, trade_history, total_pnl, starting_balance>>

\* fault: the tier flags are not consulted
portfolio_execute_tier_exit_again(pair, current_price, tier) ==
    IF pair \notin DOMAIN positions \/ tier \notin {1, 2}
    THEN /\ call' = [op |-> "execute_tier_exit", value |-> Zero, effect |-> FALSE]
         /\ UNCHANGED <<impl, ledger>>
    ELSE
    LET position == positions[pair]
        sell_quantity ==
            IF tier = 1 THEN Mul(position.total_quantity, TIER_1_EXIT_PERCENTAGE)
            ELSE Mul(position.total_quantity, TIER_2_EXIT_PERCENTAGE)
        left == Sub(position.remaining_quantity, sell_quantity)
        marked ==
            IF tier = 1
            THEN [position EXCEPT !.tier_1_sold = TRUE, !.remaining_quantity = left]
            ELSE [position EXCEPT !.tier_2_sold = TRUE, !.remaining_quantity = left]
        entry_price == position.entry_price
        sale_proceeds == Mul(current_price, sell_quantity)
        tier_pnl == Mul(Sub(current_price, entry_price), sell_quantity)
        pnl_percent == Mul(Div(Sub(current_price, entry_price), entry_price), Rat(100))
    IN  /\ trade_history' = Append(trade_history,
               [pair |-> pair,
                type |-> IF tier = 1 THEN "TIER_1_EXIT" ELSE "TIER_2_EXIT",
                entry_price |-> entry_price, exit_price |-> current_price,
                quantity |-> sell_quantity, pnl_usd |-> tier_pnl,
                pnl_percent |-> pnl_percent])
        /\ total_pnl' = Add(total_pnl, tier_pnl)
        /\ cash_balance' = Add(cash_balance, sale_proceeds)
        /\ positions' = IF Le(left, PortfolioCloseThreshold)
                        THEN Del(positions, pair)
                        ELSE Put(positions, pair, marked)
        /\ call' = [op |-> "execute_tier_exit", value |-> tier_pnl, effect |-> TRUE]
        /\ UNCHANGED <<impl, starting_balance>>

portfolio_execute_tier_exit(pair, current_price, tier) ==
    IF \/ pair \notin DOMAIN positions
       \/ ~ \/ tier = 1 /\ ~positions[pair].tier_1_sold
            \/ tier = 2 /\ ~positions[pair].tier_2_sold
    THEN /\ call' = [op |-> "execute_tier_exit", value |-> Zero, effect |-> FALSE]
         /\ UNCHANGED <<impl, ledger>>
    ELSE
    LET position == positions[pair]
        sell_quantity ==
            IF tier = 1 THEN Mul(position.total_quantity, TIER_1_EXIT_PERCENTAGE)
            ELSE Mul(position.total_quantity, TIER_2_EXIT_PERCENTAGE)
        left == Sub(position.remaining_quantity, sell_quantity)
        marked ==
            IF tier = 1
            THEN [position EXCEPT !.tier_1_sold = TRUE, !.remaining_quantity = left]
            ELSE [position EXCEPT !.tier_2_sold = TRUE, !.remaining_quantity = left]
        entry_price == position.entry_price
        sale_proceeds == Mul(current_price, sell_quantity)
        tier_pnl == Mul(Sub(current_price, entry_price), sell_quantity)
        pnl_percent == Mul(Div(Sub(current_price, entry_price), entry_price), Rat(100))
    IN  /\ trade_history' = Append(trade_history,
               [pair |-> pair,
                type |-> IF tier = 1 THEN "TIER_1_EXIT" ELSE "TIER_2_EXIT",
                entry_price |-> entry_price, exit_price |-> current_price,
                quantity |-> sell_quantity, pnl_usd |-> tier_pnl,
                pnl_percent |-> pnl_percent])
        /\ total_pnl' = Add(total_pnl, tier_pnl)
        /\ cash_balance' = Add(cash_balance, sale_proceeds)
        /\ positions' = IF Le(left, PortfolioCloseThreshold)
                        THEN Del(positions, pair)
                        ELSE Put(positions, pair, marked)
        /\ call' = [op |-> "execute_tier_exit", value |-> tier_pnl, effect |-> TRUE]
        /\ UNCHANGED <<impl, starting_balance>>

\* fault: the exit record is put in front of the history
portfolio_close_position_prepending(pair, exit_price) ==
    IF pair \notin DOMAIN positions
    THEN /\ call' = [op |-> "close_position", value |-> Zero, effect |-> FALSE]
         /\ UNCHANGED <<impl, ledger>>
    ELSE
    LET position == positions[pair]
        entry_price == position.entry_price
        quantity == position.remaining_quantity
        sale_proceeds == Mul(exit_price, quantity)
        pnl_usd == Mul(Sub(exit_price, entry_price), quantity)
        pnl_percent == Mul(Div(Sub(exit_price, entry_price), entry_price), Rat(100))
    IN  /\ trade_history' =
               <<[pair |-> pair, type |-> "FULL_EXIT", entry_price |-> entry_price,
                  exit_price |-> exit_price, quantity |-> quantity,
                  pnl_usd |-> pnl_usd, pnl_percent |-> pnl_percent]>>
               \o trade_history
        /\ total_pnl' = Add(total_pnl, pnl_usd)
        /\ positions' = Del(positions, pair)
        /\ cash_balance' = Add(cash_balance, sale_proceeds)
        /\ call' = [op |-> "close_position", value |-> pnl_usd, effect |-> TRUE]
        /\ UNCHANGED <<impl, starting_balance>>

portfolio_close_position(pair, exit_price) ==
    IF pair \notin DOMAIN positions
    THEN /\ call' = [op |-> "close_position", value |-> Zero, effect |-> FALSE]
         /\ UNCHANGED <<impl, ledger>>
    ELSE
    LET position == positions[pair]
        entry_price == position.entry_price
        quantity == position.remaining_quantity
        sale_proceeds == Mul(exit_price, quantity)
        pnl_usd == Mul(Sub(exit_price, entry_price), quantity)
        pnl_percent == Mul(Div(Sub(exit_price, entry_price), entry_price), Rat(100))
    IN  /\ trade_history' = Append(trade_history,
               [pair |-> pair, type |-> "FULL_EXIT", entry_price |-> entry_price,
                exit_price |-> exit_price, quantity |-> quantity,
                pnl_usd |-> pnl_usd, pnl_percent |-> pnl_percent])
        /\ total_pnl' = Add(total_pnl, pnl_usd)
        /\ positions' = Del(positions, pair)
        /\ cash_balance' = Add(cash_balance, sale_proceeds)
        /\ call' = [op |-> "close_position", value |-> pnl_usd, effect |-> TRUE]
        /\ UNCHANGED <<impl, starting_balance>>

(***************************************************************************)
(* The calls a client of the tracker can make, with inputs from the        *)
(* bounded sets above.                                                     *)
(***************************************************************************)
\* A run is at most MaxTransactions calls that change the ledger, and then
\* possibly one call that changes nothing.  Such a call leaves the ledger as
\* it was, so every ledger a longer run reaches is reached without it.  The
\* actions test call.effect and the bound before they make the call; Counted
\* counts the call made.
Counted ==
    /\ transactions' = IF call'.effect THEN transactions + 1 ELSE transactions
    /\ transactions' <= MaxTransactions
    /\ replaced' = \/ replaced
                   \/ /\ call'.op = "open_position"
                      /\ call'.value = TRUE
                      /\ DOMAIN positions' = DOMAIN positions
    /\ UNCHANGED loop

BotOpen ==
    \E pair \in Pairs : \E price \in Prices(pair), atr_value \in AtrValues(pair) :
        /\ impl = "bot"
        /\ call.effect
        /\ IF transactions < MaxTransactions THEN TRUE
           ELSE bot_open_refused(
                    bot_calculate_position_size(price, atr_value).quantity, price)
        /\ bot_open_position(pair, price, atr_value)
        /\ Counted

BotPartialClose ==
    \E pair \in Pairs : \E price \in Prices(pair), pct \in Percentages, t \in TierNames :
        /\ impl = "bot"
        /\ call.effect
        /\ IF transactions < MaxTransactions THEN TRUE
           ELSE pair \notin DOMAIN positions
        /\ bot_partial_close_position(pair, price, pct, t)
        /\ Counted

BotClose ==
    \E pair \in Pairs : \E price \in Prices(pair) :
        /\ impl = "bot"
        /\ call.effect
        /\ IF transactions < MaxTransactions THEN TRUE
           ELSE pair \notin DOMAIN positions
        /\ bot_close_position(pair, price)
        /\ Counted

PortfolioOpen ==
    \E pair \in Pairs : \E price \in Prices(pair), atr_value \in AtrValues(pair) :
        /\ impl = "portfolio"
        /\ call.effect
        /\ IF transactions < MaxTransactions THEN TRUE
           ELSE portfolio_open_refused(
                    portfolio_calculate_position_size(price, atr_value).quantity, price)
        /\ portfolio_open_position(pair, price, atr_value)
        /\ Counted

PortfolioTierExit ==
    \E pair \in Pairs : \E price \in Prices(pair), tier \in Tiers :
        /\ impl = "portfolio"
        /\ call.effect
        /\ IF transactions < MaxTransactions \/ pair \notin DOMAIN positions
           THEN TRUE
           ELSE IF tier = 1 THEN positions[pair].tier_1_sold
           ELSE IF tier = 2 THEN positions[pair].tier_2_sold
           ELSE TRUE
        /\ portfolio_execute_tier_exit(pair, price, tier)
        /\ Counted

PortfolioClose ==
    \E pair \in Pairs : \E price \in Prices(pair) :
        /\ impl = "portfolio"
        /\ call.effect
        /\ IF transactions < MaxTransactions THEN TRUE
           ELSE pair \notin DOMAIN positions
        /\ portfolio_close_position(pair, price)
        /\ Counted

Next ==
    \/ BotOpen
    \/ BotPartialClose
    \/ BotClose
    \/ PortfolioOpen
    \/ PortfolioTierExit
    \/ PortfolioClose

Spec == Init /\ [][Next]_vars

\* A client that only buys, and only pairs it holds no position in (the BUY
\* branch of analyze_and_trade), out of one pair more than MAX_POSITIONS: the
\* pairs bound the run.
BuyPairs == Pairs \cup {"SOL-USD"}

BotOpenNew ==
    \E pair \in BuyPairs \ DOMAIN positions :
        \E price \in Prices(pair), atr_value \in AtrValues(pair) :
            /\ impl = "bot"
            /\ bot_open_position(pair, price, atr_value)
            /\ UNCHANGED <<transactions, replaced, loop>>

PortfolioOpenNew ==
    \E pair \in BuyPairs \ DOMAIN positions :
        \E price \in Prices(pair), atr_value \in AtrValues(pair) :
            /\ impl = "portfolio"
            /\ portfolio_open_position(pair, price, atr_value)
            /\ UNCHANGED <<transactions, replaced, loop>>

NextOpens ==
    \/ BotOpenNew
    \/ PortfolioOpenNew

SpecOpens == Init /\ [][NextOpens]_vars

(***************************************************************************)
(* The two classes seen through one interface.                             *)
(***************************************************************************)
\* the quantity still held: current_quantity (bot), remaining_quantity (portfolio)
Remaining(position) ==
    IF impl = "bot" THEN position.current_quantity ELSE position.remaining_quantity

\* the quantity bought: original_quantity (bot), total_quantity (portfolio)
Original(position) ==
    IF impl = "bot" THEN position.original_quantity ELSE position.total_quantity

\* the tier flags: tier_N_executed (bot), tier_N_sold (portfolio)
TierFlags(position) ==
    IF impl = "bot" THEN <<position.tier_1_executed, position.tier_2_executed>>
    ELSE <<position.tier_1_sold, position.tier_2_sold>>

calculate_total_balance ==
    IF impl = "bot" THEN bot_calculate_total_balance
    ELSE portfolio_calculate_total_balance

calculate_position_size(price, atr_value) ==
    IF impl = "bot" THEN bot_calculate_position_size(price, atr_value)
    ELSE portfolio_calculate_position_size(price, atr_value)

open_position(pair, price, atr_value) ==
    \/ impl = "bot" /\ bot_open_position(pair, price, atr_value)
    \/ impl = "portfolio" /\ portfolio_open_position(pair, price, atr_value)

close_position(pair, exit_price) ==
    \/ impl = "bot" /\ bot_close_position(pair, exit_price)
    \/ impl = "portfolio" /\ portfolio_close_position(pair, exit_price)

NoPositions == DOMAIN positions = {}

\* the (price, atr_value) arguments the sizing is called with
SizingInputs == UNION {Prices(pair) \X AtrValues(pair) : pair \in Pairs}

(***************************************************************************)
(* Properties of the ledger.                                               *)
(***************************************************************************)
RECURSIVE HeldAtEntry(_)
\* the open positions valued at their entry prices
HeldAtEntry(S) ==
    IF S = {} THEN Zero
    ELSE LET k == CHOOSE x \in S : TRUE
         IN  Add(Mul(Remaining(positions[k]), positions[k].entry_price),
                 HeldAtEntry(S \ {k}))

\* C1: as long as no open_position has replaced a position, the cash plus
\* the open positions at their entry prices equals the starting balance plus
\* the realised profit
C1_Conservation ==
    ~replaced =>
        Add(cash_balance, HeldAtEntry(DOMAIN positions))
            = Add(starting_balance, total_pnl)

\* C2: a bot partial close for a tier that the position has already
\* executed returns 0 and leaves cash, realised profit, trade history and the
\* position's quantity as they were
C2_TierAtMostOnce ==
    [][\A pair \in Pairs : \A price \in Prices(pair), pct \in Percentages :
        \A t \in TierNames :
            ( /\ impl = "bot"
              /\ pair \in DOMAIN positions
              /\ \/ t = "TIER_1" /\ positions[pair].tier_1_executed
                 \/ t = "TIER_2" /\ positions[pair].tier_2_executed
              /\ bot_partial_close_position(pair, price, pct, t) )
            => /\ call'.value = Zero
               /\ UNCHANGED <<cash_balance, total_pnl, trade_history>>
               /\ pair \in DOMAIN positions'
               /\ positions'[pair].current_quantity
                      = positions[pair].current_quantity]_vars

\* C3: a full close, a bot partial close or a portfolio tier exit for a pair
\* that has no position returns 0 and changes neither cash, realised profit,
\* positions nor trade history
C3_NoPositionNoEffect ==
    [][\A pair \in Pairs \ DOMAIN positions : \A price \in Prices(pair) :
        ( /\ call'.op # "open_position"
          /\ \/ close_position(pair, price)
             \/ \E pct \in Percentages, t \in TierNames :
                   impl = "bot" /\ bot_partial_close_position(pair, price, pct, t)
             \/ \E tier \in Tiers :
                   /\ impl = "portfolio"
                   /\ portfolio_execute_tier_exit(pair, price, tier) )
        => /\ call'.value = Zero
           /\ UNCHANGED <<cash_balance, total_pnl, positions, trade_history>>]_vars

\* a close was called on a tracker that never traded, and returned 0
C3_Witness ==
    /\ call.op \in {"close_position", "partial_close_position", "execute_tier_exit"}
    /\ call.value = Zero
    /\ NoPositions
    /\ trade_history = <<>>
    /\ cash_balance = starting_balance

\* C4: open_position returns False exactly when the sized quantity is not
\* positive or costs more than the cash, and then the ledger is unchanged;
\* when it returns True the pair has a position of the sized quantity, bought
\* at the price, with both tier flags false, and the cash is debited by
\* quantity x price
C4_OpenAllOrNothing ==
    [][\A pair \in Pairs : \A price \in Prices(pair), atr_value \in AtrValues(pair) :
        (call'.op = "open_position" /\ open_position(pair, price, atr_value)) =>
            LET quantity == calculate_position_size(price, atr_value).quantity
                refused == \/ Le(quantity, Zero)
                           \/ Lt(cash_balance, Mul(quantity, price))
            IN  IF refused
                THEN /\ call'.value = FALSE
                     /\ UNCHANGED <<positions, cash_balance, total_pnl, trade_history>>
                ELSE /\ call'.value = TRUE
                     /\ pair \in DOMAIN positions'
                     /\ Remaining(positions'[pair]) = quantity
                     /\ Original(positions'[pair]) = quantity
                     /\ positions'[pair].entry_price = price
                     /\ TierFlags(positions'[pair]) = <<FALSE, FALSE>>
                     /\ cash_balance' = Sub(cash_balance, Mul(quantity, price))
                     /\ total_pnl' = total_pnl]_vars

\* an open_position was refused while positions were held
C4_Witness ==
    /\ call.op = "open_position"
    /\ call.value = FALSE
    /\ ~NoPositions

\* C5: open_position for a pair that already has a position leaves that
\* position, the cash and the trade history unchanged
C5_OpenExistingNoOp ==
    [][\A pair \in DOMAIN positions :
        \A price \in Prices(pair), atr_value \in AtrValues(pair) :
            open_position(pair, price, atr_value) =>
                UNCHANGED <<positions, cash_balance, trade_history>>]_vars

\* C6: every position held has 0 < remaining quantity <= original quantity
C6_QuantityRange ==
    \A pair \in DOMAIN positions :
        /\ Lt(Zero, Remaining(positions[pair]))
        /\ Le(Remaining(positions[pair]), Original(positions[pair]))

\* a position that has been sold in part
C6_Witness ==
    \E pair \in DOMAIN positions :
        Lt(Remaining(positions[pair]), Original(positions[pair]))

\* C7: the sized quantity never costs more than the cash, and right after a
\* successful open_position the used exposure (total balance less cash) is at
\* most MAX_EXPOSURE of the total balance
C7_SizingBound ==
    /\ \A input \in SizingInputs :
            Le(Mul(calculate_position_size(input[1], input[2]).quantity, input[1]),
               cash_balance)
    /\ (call.op = "open_position" /\ call.value = TRUE) =>
            Le(Sub(calculate_total_balance, cash_balance),
               Mul(MAX_EXPOSURE, calculate_total_balance))

\* an open_position that took the exposure exactly to its limit
C7_Witness ==
    /\ call.op = "open_position"
    /\ call.value = TRUE
    /\ Sub(calculate_total_balance, cash_balance)
           = Mul(MAX_EXPOSURE, calculate_total_balance)

RejectionReasons == {"Max positions reached", "Trade size too small"}

\* C8: the sized quantity is never negative, it is 0 exactly when the sizing
\* rejects (max positions, trade too small), and positive otherwise
C8_SizeSign ==
    \A input \in SizingInputs :
        LET sized == calculate_position_size(input[1], input[2])
        IN  /\ Le(Zero, sized.quantity)
            /\ sized.quantity = Zero <=> sized.reason \in RejectionReasons
            /\ sized.reason \notin RejectionReasons => Lt(Zero, sized.quantity)

\* MAX_POSITIONS positions are held and a further open_position was refused
C8_Witness ==
    /\ Cardinality(DOMAIN positions) = MAX_POSITIONS
    /\ call.op = "open_position"
    /\ call.value = FALSE
    /\ \A input \in SizingInputs :
            calculate_position_size(input[1], input[2]).reason
                = "Max positions reached"

\* C9: with an ATR > 0 and no rejection, the loss at the stop 1.5 ATR below
\* the price is at most RISK_PER_TRADE of the total balance
C9_RiskCap ==
    \A input \in SizingInputs :
        LET atr_value == input[2]
            sized == calculate_position_size(input[1], atr_value)
        IN  ( /\ atr_value # None
              /\ Lt(Zero, atr_value)
              /\ sized.reason \notin RejectionReasons )
            => Le(Mul(sized.quantity, Mul(Frac(15, 10), atr_value)),
                  Mul(RISK_PER_TRADE, calculate_total_balance))

\* a position was bought whose loss at the ATR stop is the whole risk budget
C9_Witness ==
    /\ call.op = "open_position"
    /\ call.value = TRUE
    /\ \E pair \in DOMAIN positions : \E atr_value \in AtrValues(pair) \ {None} :
            Mul(Original(positions[pair]), Mul(Frac(15, 10), atr_value))
                = Mul(RISK_PER_TRADE, starting_balance)

\* C10: every position was bought for at least MIN_TRADE_SIZE
C10_MinTradeSize ==
    \A pair \in DOMAIN positions :
        Le(Rat(MIN_TRADE_SIZE),
           Mul(Original(positions[pair]), positions[pair].entry_price))

(***************************************************************************)
(* SignalThrottle (bot.py 421-453, portfolio.py 305-339): the two classes  *)
(* are the same text.  Timestamps are whole seconds counted from the       *)
(* construction of the throttle.                                           *)
(***************************************************************************)
\* signal_throttle = SignalThrottle(throttle_minutes=15)
throttle_minutes == 15

throttle_seconds == throttle_minutes * 60

ThrottlePairs == {"BTC-USD", "ETH-USD"}

\* the clock readings at which the throttle is called: around one window
\* after a signal at 0 and around one window after a signal at 1
Clock == {0, 1, throttle_seconds - 1, throttle_seconds, throttle_seconds + 1,
          2 * throttle_seconds}

\* fault: the window is over only after more than throttle_seconds
can_signal_late(pair) ==
    IF pair \notin DOMAIN last_signals THEN TRUE
    ELSE now - last_signals[pair] > throttle_seconds

\* fault: no window at all
can_signal_always(pair) == TRUE

\* fault: the window is over one second early
can_signal_early(pair) ==
    IF pair \notin DOMAIN last_signals THEN TRUE
    ELSE now - last_signals[pair] >= throttle_seconds - 1

can_signal(pair) ==
    IF pair \notin DOMAIN last_signals THEN TRUE
    ELSE now - last_signals[pair] >= throttle_seconds

\* the clock moves on between two calls
Tick ==
    /\ \E t \in Clock : t > now /\ now' = t
    /\ UNCHANGED <<impl, ledger, call, transactions, replaced, last_signals, decision, cycle, status, main>>

CanSignal ==
    \E pair \in ThrottlePairs :
        /\ call' = [op |-> "can_signal", pair |-> pair,
                    value |-> can_signal(pair), effect |-> FALSE]
        /\ UNCHANGED <<impl, ledger, transactions, replaced, throttle, decision, cycle, status, main>>

RecordSignal ==
    \E pair \in ThrottlePairs :
        /\ last_signals' = Put(last_signals, pair, now)
        /\ call' = [op |-> "record_signal", pair |-> pair,
                    value |-> None, effect |-> TRUE]
        /\ UNCHANGED <<impl, ledger, transactions, replaced, now, decision, cycle, status, main>>

NextThrottle ==
    \/ Tick
    \/ CanSignal
    \/ RecordSignal

SpecThrottle == Init /\ [][NextThrottle]_vars

\* the answer the throttle owes for a pair: yes when no signal was recorded,
\* and from throttle_seconds after the last recorded signal on
Ready(pair, signals, time) ==
    pair \notin DOMAIN signals \/ time >= signals[pair] + throttle_seconds

\* C11: can_signal(pair) answers yes exactly when no signal was recorded for
\* the pair or throttle_seconds have passed since the last one; record_signal
\* at time t sets the pair's last signal to t and changes no other pair's
\* last signal or answer; nothing else changes a last signal
C11_Throttle ==
    [][ /\ call'.op = "can_signal" /\ call' # call
           => /\ call'.value = Ready(call'.pair, last_signals, now)
              /\ last_signals' = last_signals
        /\ call'.op = "record_signal" /\ now' = now
           => /\ last_signals'[call'.pair] = now
              /\ ~Ready(call'.pair, last_signals', now')
              /\ \A other \in ThrottlePairs \ {call'.pair} :
                    /\ Ready(other, last_signals', now') = Ready(other, last_signals, now)
                    /\ other \in DOMAIN last_signals
                       => /\ other \in DOMAIN last_signals'
                          /\ last_signals'[other] = last_signals[other]
        /\ now' # now => last_signals' = last_signals
      ]_vars

\* can_signal answered yes at the very end of the window, and no one second
\* before the end of the other pair's window
C11_Witness ==
    /\ call.op = "can_signal"
    /\ call.value = TRUE
    /\ call.pair \in DOMAIN last_signals
    /\ now = last_signals[call.pair] + throttle_seconds
    /\ \E other \in DOMAIN last_signals :
          now = last_signals[other] + throttle_seconds - 1

(***************************************************************************)
(* The bot tracker driven on one pair at the prices 9, 10 and 12.          *)
(***************************************************************************)
ScenarioPair == "ETH-USD"

ScenarioPrices == {Rat(9), Rat(10), Rat(12)}

ScenarioOpen ==
    \E price \in ScenarioPrices :
        /\ impl = "bot"
        /\ call.effect
        /\ IF transactions < MaxTransactions THEN TRUE
           ELSE bot_open_refused(bot_calculate_position_size(price, None).quantity, price)
        /\ bot_open_position(ScenarioPair, price, None)
        /\ Counted

ScenarioPartialClose ==
    \E price \in ScenarioPrices, pct \in Percentages, t \in TierNames :
        /\ impl = "bot"
        /\ call.effect
        /\ IF transactions < MaxTransactions THEN TRUE
           ELSE ScenarioPair \notin DOMAIN positions
        /\ bot_partial_close_position(ScenarioPair, price, pct, t)
        /\ Counted

ScenarioClose ==
    \E price \in ScenarioPrices :
        /\ impl = "bot"
        /\ call.effect
        /\ IF transactions < MaxTransactions THEN TRUE
           ELSE ScenarioPair \notin DOMAIN positions
        /\ bot_close_position(ScenarioPair, price)
        /\ Counted

NextScenario ==
    \/ ScenarioOpen
    \/ ScenarioPartialClose
    \/ ScenarioClose

SpecScenario == Init /\ [][NextScenario]_vars

\* the trade history starts with a buy at 10
BoughtAt10 ==
    /\ Len(trade_history) >= 1
    /\ trade_history[1].action = "BUY"
    /\ trade_history[1].entry_price = Rat(10)

\* ... followed by the tier 1 partial close of 30% at 12
ThenTier1At12 ==
    /\ BoughtAt10
    /\ Len(trade_history) >= 2
    /\ trade_history[2].action = "PARTIAL_SELL_TIER_1"
    /\ trade_history[2].exit_price = Rat(12)

\* ... followed by the full close at 9
ThenClosedAt9 ==
    /\ ThenTier1At12
    /\ Len(trade_history) >= 3
    /\ trade_history[3].action = "SELL"
    /\ trade_history[3].exit_price = Rat(9)

\* C12: on a fresh bot ledger of 1000, open_position at 10 without ATR buys
\* 25 and leaves cash 750; the 30% tier 1 partial close at 12 then sells 7.5
\* for a profit of 15 and leaves cash 840, 17.5 held and tier 1 executed; the
\* full close at 9 then sells 17.5 for a profit of -17.5, credits 157.5,
\* deletes the position and leaves a realised total of -2.5
C12_Scenario ==
    /\ BoughtAt10
       => /\ trade_history[1].quantity = Rat(25)
          /\ Len(trade_history) = 1
             => /\ cash_balance = Rat(750)
                /\ positions[ScenarioPair].current_quantity = Rat(25)
    /\ ThenTier1At12
       => /\ trade_history[2].quantity = Frac(75, 10)
          /\ trade_history[2].pnl_usd = Rat(15)
          /\ Len(trade_history) = 2
             => /\ cash_balance = Rat(840)
                /\ total_pnl = Rat(15)
                /\ positions[ScenarioPair].current_quantity = Frac(175, 10)
                /\ positions[ScenarioPair].tier_1_executed
    /\ ThenClosedAt9
       => /\ trade_history[3].quantity = Frac(175, 10)
          /\ trade_history[3].pnl_usd = Frac(-175, 10)
          /\ Len(trade_history) = 3
             => /\ cash_balance = Add(Rat(840), Frac(1575, 10))
                /\ ScenarioPair \notin DOMAIN positions
                /\ total_pnl = Frac(-25, 10)

\* the three calls of the scenario have been made
C12_Witness ==
    /\ ThenClosedAt9
    /\ Len(trade_history) = 3
    /\ call.op = "close_position"
    /\ call.value = Frac(-175, 10)

(***************************************************************************)
(* The price updates: bot update_unrealized_pnl with                       *)
(* update_highest_price_and_trailing_stop (bot.py 298-326) and portfolio   *)
(* update_position (portfolio.py 208-239).                                 *)
(***************************************************************************)
TRAILING_STOP_ACTIVATION_PCT == Frac(15, 100)

TRAILING_STOP_DISTANCE_PCT == Frac(3, 100)

\* fault: the highest price is overwritten with every price
bot_highest_price_last(position, current_price) == current_price

\* if current_price > position["highest_price"]: ... = current_price
bot_highest_price(position, current_price) ==
    IF Lt(position.highest_price, current_price) THEN current_price
    ELSE position.highest_price

\* fault: the stop is put 3% above the highest price
bot_trailing_stop_price_above(position, highest_price) ==
    IF position.tier_2_executed
    THEN Mul(highest_price, Add(Rat(1), Frac(3, 100)))
    ELSE None

\* 3% below the highest price, but only after tier 2
bot_trailing_stop_price(position, highest_price) ==
    IF position.tier_2_executed
    THEN Mul(highest_price, Sub(Rat(1), Frac(3, 100)))
    ELSE None

\* the position as update_unrealized_pnl leaves it
bot_updated(position, current_price) ==
    LET unrealized_pnl == Mul(Sub(current_price, position.entry_price),
                              position.current_quantity)
        highest_price == bot_highest_price(position, current_price)
    IN  [position EXCEPT
            !.unrealized_pnl = unrealized_pnl,
            !.highest_price = highest_price,
            !.trailing_stop_price = bot_trailing_stop_price(position, highest_price)]

bot_update_unrealized_pnl(pair, current_price) ==
    IF pair \notin DOMAIN positions
    THEN /\ call' = [op |-> "update_unrealized_pnl", pair |-> pair,
                     value |-> None, effect |-> FALSE]
         /\ UNCHANGED <<impl, ledger>>
    ELSE
        /\ positions' = Put(positions, pair,
                            bot_updated(positions[pair], current_price))
        /\ call' = [op |-> "update_unrealized_pnl", pair |-> pair,
                    value |-> None, effect |-> TRUE]
        /\ UNCHANGED <<impl, trade_history, total_pnl, cash_balance,
                       starting_balance>>

\* fault: the position is marked to market, its entry value included
portfolio_update_position_marked(pair, current_price) ==
    IF pair \notin DOMAIN positions
    THEN /\ call' = [op |-> "update_position", pair |-> pair,
                     value |-> None, effect |-> FALSE]
         /\ UNCHANGED <<impl, ledger>>
    ELSE
    LET position == positions[pair]
        entry_price == position.entry_price
        remaining_quantity == position.remaining_quantity
        highest_price == IF Lt(position.highest_price, current_price)
                         THEN current_price ELSE position.highest_price
        gain_pct == Div(Sub(current_price, entry_price), entry_price)
        activated == /\ Le(TRAILING_STOP_ACTIVATION_PCT, gain_pct)
                     /\ ~position.trailing_stop_active
        active == activated \/ position.trailing_stop_active
        stop_price == IF activated
                      THEN Mul(current_price, Sub(Rat(1), TRAILING_STOP_DISTANCE_PCT))
                      ELSE position.trailing_stop_price
        new_stop_price == Mul(highest_price, Sub(Rat(1), TRAILING_STOP_DISTANCE_PCT))
    IN  /\ positions' = Put(positions, pair,
               [position EXCEPT
                   !.entry_value = Mul(current_price, remaining_quantity),
                   !.position_value = Mul(current_price, remaining_quantity),
                   !.unrealized_pnl = Mul(Sub(current_price, entry_price),
                                          remaining_quantity),
                   !.highest_price = highest_price,
                   !.trailing_stop_active = active,
                   !.trailing_stop_price =
                       IF active /\ Lt(stop_price, new_stop_price)
                       THEN new_stop_price ELSE stop_price])
        /\ call' = [op |-> "update_position", pair |-> pair,
                    value |-> None, effect |-> TRUE]
        /\ UNCHANGED <<impl, trade_history, total_pnl, cash_balance,
                       starting_balance>>

portfolio_update_position(pair, current_price) ==
    IF pair \notin DOMAIN positions
    THEN /\ call' = [op |-> "update_position", pair |-> pair,
                     value |-> None, effect |-> FALSE]
         /\ UNCHANGED <<impl, ledger>>
    ELSE
    LET position == positions[pair]
        entry_price == position.entry_price
        remaining_quantity == position.remaining_quantity
        highest_price == IF Lt(position.highest_price, current_price)
                         THEN current_price ELSE position.highest_price
        gain_pct == Div(Sub(current_price, entry_price), entry_price)
        activated == /\ Le(TRAILING_STOP_ACTIVATION_PCT, gain_pct)
                     /\ ~position.trailing_stop_active
        active == activated \/ position.trailing_stop_active
        stop_price == IF activated
                      THEN Mul(current_price, Sub(Rat(1), TRAILING_STOP_DISTANCE_PCT))
                      ELSE position.trailing_stop_price
        new_stop_price == Mul(highest_price, Sub(Rat(1), TRAILING_STOP_DISTANCE_PCT))
    IN  /\ positions' = Put(positions, pair,
               [position EXCEPT
                   !.position_value = Mul(current_price, remaining_quantity),
                   !.unrealized_pnl = Mul(Sub(current_price, entry_price),
                                          remaining_quantity),
                   !.highest_price = highest_price,
                   !.trailing_stop_active = active,
                   !.trailing_stop_price =
                       IF active /\ Lt(stop_price, new_stop_price)
                       THEN new_stop_price ELSE stop_price])
        /\ call' = [op |-> "update_position", pair |-> pair,
                    value |-> None, effect |-> TRUE]
        /\ UNCHANGED <<impl, trade_history, total_pnl, cash_balance,
                       starting_balance>>

\* The tracker followed through price updates: two pairs, bought only when
\* not held, sold in tiers and closed at their traded prices, and updated at
\* prices below and above the entry price.
UpdatePairs == {"ETH-USD", "XRP-USD"}

UpdatePrices == {Rat(9), Rat(15), Rat(18)}

UpdatesBotOpen ==
    \E pair \in UpdatePairs \ DOMAIN positions : \E price \in Prices(pair) :
        /\ impl = "bot"
        /\ call.effect
        /\ transactions < MaxTransactions
        /\ bot_open_position(pair, price, None)
        /\ Counted

UpdatesBotPartialClose ==
    \E pair \in UpdatePairs \cap DOMAIN positions :
        \E price \in Prices(pair), pct \in Percentages, t \in TierNames :
            /\ impl = "bot"
            /\ call.effect
            /\ transactions < MaxTransactions
            /\ bot_partial_close_position(pair, price, pct, t)
            /\ Counted

UpdatesBotClose ==
    \E pair \in UpdatePairs \cap DOMAIN positions : \E price \in Prices(pair) :
        /\ impl = "bot"
        /\ call.effect
        /\ transactions < MaxTransactions
        /\ bot_close_position(pair, price)
        /\ Counted

UpdatesBotUpdate ==
    \E pair \in UpdatePairs, price \in UpdatePrices :
        /\ impl = "bot"
        /\ call.effect
        /\ bot_update_unrealized_pnl(pair, price)
        /\ UNCHANGED <<transactions, replaced, loop>>

UpdatesPortfolioOpen ==
    \E pair \in UpdatePairs \ DOMAIN positions : \E price \in Prices(pair) :
        /\ impl = "portfolio"
        /\ call.effect
        /\ transactions < MaxTransactions
        /\ portfolio_open_position(pair, price, None)
        /\ Counted

UpdatesPortfolioTierExit ==
    \E pair \in UpdatePairs \cap DOMAIN positions :
        \E price \in Prices(pair), tier \in {1, 2} :
            /\ impl = "portfolio"
            /\ call.effect
            /\ transactions < MaxTransactions
            /\ portfolio_execute_tier_exit(pair, price, tier)
            /\ Counted

UpdatesPortfolioClose ==
    \E pair \in UpdatePairs \cap DOMAIN positions : \E price \in Prices(pair) :
        /\ impl = "portfolio"
        /\ call.effect
        /\ transactions < MaxTransactions
        /\ portfolio_close_position(pair, price)
        /\ Counted

UpdatesPortfolioUpdate ==
    \E pair \in UpdatePairs, price \in UpdatePrices :
        /\ impl = "portfolio"
        /\ call.effect
        /\ portfolio_update_position(pair, price)
        /\ UNCHANGED <<transactions, replaced, loop>>

NextUpdates ==
    \/ UpdatesBotOpen
    \/ UpdatesBotPartialClose
    \/ UpdatesBotClose
    \/ UpdatesBotUpdate
    \/ UpdatesPortfolioOpen
    \/ UpdatesPortfolioTierExit
    \/ UpdatesPortfolioClose
    \/ UpdatesPortfolioUpdate

SpecUpdates == Init /\ [][NextUpdates]_vars

UpdateOps == {"update_unrealized_pnl", "update_position"}

\* C13: while a position is held its highest_price never decreases, and it
\* is never below the entry price
C13_HighestPrice ==
    [][ \A pair \in DOMAIN positions' :
           /\ Le(positions'[pair].entry_price, positions'[pair].highest_price)
           /\ pair \in DOMAIN positions
              => Le(positions[pair].highest_price, positions'[pair].highest_price)
      ]_vars

\* a position was updated at a price below its entry price after its highest
\* price had risen above the entry price
C13_Witness ==
    /\ call.op \in UpdateOps
    /\ call.effect
    /\ Lt(positions[call.pair].entry_price, positions[call.pair].highest_price)
    /\ Lt(positions[call.pair].unrealized_pnl, Zero)

\* C14: while a position is held, a trailing_stop_price that is set stays
\* set and never decreases, and a set trailing_stop_price is strictly below
\* the highest price
C14_TrailingStop ==
    [][ \A pair \in DOMAIN positions' :
           /\ positions'[pair].trailing_stop_price # None
              => Lt(positions'[pair].trailing_stop_price,
                    positions'[pair].highest_price)
           /\ pair \in DOMAIN positions /\ positions[pair].trailing_stop_price # None
              => /\ positions'[pair].trailing_stop_price # None
                 /\ Le(positions[pair].trailing_stop_price,
                       positions'[pair].trailing_stop_price)
      ]_vars

\* a position with a trailing stop was updated at a price below the stop
C14_Witness ==
    /\ call.op \in UpdateOps
    /\ call.effect
    /\ positions[call.pair].trailing_stop_price # None
    /\ Lt(positions[call.pair].unrealized_pnl, Zero)
    /\ Lt(positions[call.pair].entry_price, positions[call.pair].trailing_stop_price)

RECURSIVE PositionValueOf(_, _)
\* the sum of calculate_total_balance over the positions poss: entry_price
\* times current_quantity (bot) or total_quantity (portfolio)
PositionValueOf(poss, S) ==
    IF S = {} THEN Zero
    ELSE LET k == CHOOSE x \in S : TRUE
             quantity == IF impl = "bot" THEN poss[k].current_quantity
                         ELSE poss[k].total_quantity
         IN  Add(Mul(poss[k].entry_price, quantity), PositionValueOf(poss, S \ {k}))

\* calculate_total_balance() of a tracker with the given cash and positions
TotalBalanceOf(cash, poss) == Add(cash, PositionValueOf(poss, DOMAIN poss))

\* the position with the fields a price update may write taken from before
Unwritten(after, before) ==
    IF impl = "bot"
    THEN [after EXCEPT !.unrealized_pnl = before.unrealized_pnl,
                       !.highest_price = before.highest_price,
                       !.trailing_stop_price = before.trailing_stop_price]
    ELSE [after EXCEPT !.unrealized_pnl = before.unrealized_pnl,
                       !.position_value = before.position_value,
                       !.highest_price = before.highest_price,
                       !.trailing_stop_active = before.trailing_stop_active,
                       !.trailing_stop_price = before.trailing_stop_price]

\* C19: a price update for a pair without a position changes nothing; for a
\* held pair it changes at most that position's unrealized_pnl,
\* position_value, highest_price and trailing-stop fields, and leaves the
\* cash, the realised profit, the trade history, every other field and
\* position, and calculate_total_balance() as they were
C19_UpdateFrame ==
    [][ call'.op \in UpdateOps
        => /\ UNCHANGED <<cash_balance, total_pnl, trade_history, starting_balance>>
           /\ DOMAIN positions' = DOMAIN positions
           /\ \A pair \in DOMAIN positions :
                 IF pair = call'.pair
                 THEN Unwritten(positions'[pair], positions[pair]) = positions[pair]
                 ELSE positions'[pair] = positions[pair]
           /\ calculate_total_balance = TotalBalanceOf(cash_balance, positions)
           /\ TotalBalanceOf(cash_balance', positions') = calculate_total_balance
      ]_vars

\* a position was updated to a new unrealized_pnl while another was held
C19_Witness ==
    /\ call.op \in UpdateOps
    /\ call.effect
    /\ positions[call.pair].unrealized_pnl # Zero
    /\ DOMAIN positions = UpdatePairs
    /\ transactions = MaxTransactions

(***************************************************************************)
(* The trade history.                                                      *)
(***************************************************************************)
ExitTypes == {"TIER_1_EXIT", "TIER_2_EXIT", "FULL_EXIT"}

\* the record a call has appended is of the call's kind
RecordOfCall(record, op) ==
    IF impl = "bot" THEN (record.action = "BUY") = (op = "open_position")
    ELSE op # "open_position" /\ record.type \in ExitTypes

\* C15: a call that changed the ledger (a successful open_position, an
\* executed partial close, tier exit or full close) appends exactly one trade
\* record, a BUY record for an open and an exit record otherwise, and a call
\* that failed or did nothing appends none
C15_OneRecordPerTransaction ==
    [][ IF call'.effect
        THEN /\ Len(trade_history') = Len(trade_history) + 1
             /\ SubSeq(trade_history', 1, Len(trade_history)) = trade_history
             /\ RecordOfCall(trade_history'[Len(trade_history')], call'.op)
        ELSE trade_history' = trade_history
      ]_vars

\* C16: every step leaves the trade history it found as a prefix of the
\* trade history it leaves
C16_AppendOnly ==
    [][ /\ Len(trade_history') >= Len(trade_history)
        /\ SubSeq(trade_history', 1, Len(trade_history)) = trade_history
      ]_vars

\* a record was appended to a history that held two different records
C16_Witness ==
    /\ Len(trade_history) = 3
    /\ trade_history[1] # trade_history[2]
    /\ call.effect
    /\ call.op = "close_position"

(***************************************************************************)
(* portfolio calculate_total_balance(current_prices) (portfolio.py 19-32). *)
(***************************************************************************)
\* the current_prices argument: None, or a dict with the price of one pair
CurrentPrices ==
    {None} \cup {[x \in {pair} |-> price] : pair \in UpdatePairs, price \in UpdatePrices}

RECURSIVE PortfolioPositionValueAt(_, _)
\* sum(current_prices.get(pair, pos["entry_price"]) * pos["total_quantity"] ...)
PortfolioPositionValueAt(S, current_prices) ==
    IF S = {} THEN Zero
    ELSE LET k == CHOOSE x \in S : TRUE
             price == IF k \in DOMAIN current_prices THEN current_prices[k]
                      ELSE positions[k].entry_price
         IN  Add(Mul(price, positions[k].total_quantity),
                 PortfolioPositionValueAt(S \ {k}, current_prices))

portfolio_calculate_total_balance_at(current_prices) ==
    IF current_prices = None THEN portfolio_calculate_total_balance
    ELSE Add(cash_balance, PortfolioPositionValueAt(DOMAIN positions, current_prices))

RECURSIVE RemainingValueAt(_, _)
\* the quantities still held, at the supplied price or else the entry price
RemainingValueAt(S, current_prices) ==
    IF S = {} THEN Zero
    ELSE LET k == CHOOSE x \in S : TRUE
             price == IF k \in DOMAIN current_prices THEN current_prices[k]
                      ELSE positions[k].entry_price
         IN  Add(Mul(price, positions[k].remaining_quantity),
                 RemainingValueAt(S \ {k}, current_prices))

\* C17: portfolio calculate_total_balance(current_prices) is the cash plus,
\* for every position, its remaining quantity at the supplied price of its
\* pair, or at its entry price when none is supplied
C17_TotalBalanceAtPrices ==
    impl = "portfolio"
    => \A current_prices \in CurrentPrices :
          portfolio_calculate_total_balance_at(current_prices)
              = Add(cash_balance, RemainingValueAt(DOMAIN positions, current_prices))

(***************************************************************************)
(* The trading loop of bot.py (main_loop, 1145-1173): periodic_resync and  *)
(* the tracker calls of analyze_and_trade.                                 *)
(***************************************************************************)
\* what fetch_real_coinbase_balances returns: the USD balance of the account
\* (None when the accounts cannot be read) and the currencies held
RealUsdBalances == {None, Rat(500), Rat(1000)}

RealCryptoHoldings == {{}, {"BTC"}}

bot_periodic_resync(real_usd_balance, real_crypto_holdings) ==
    LET balance_diff == IF Lt(cash_balance, real_usd_balance)
                        THEN Sub(real_usd_balance, cash_balance)
                        ELSE Sub(cash_balance, real_usd_balance)
    IN  \* the loop over the holdings stops at its first item with a NameError
        \* (PAIRS is not defined), which the except clause swallows: no
        \* position is ever added
        IF real_usd_balance # None /\ Lt(Rat(1), balance_diff)
        THEN /\ cash_balance' = real_usd_balance
             /\ call' = [op |-> "periodic_resync", value |-> None, effect |-> TRUE]
             /\ UNCHANGED <<impl, positions, trade_history, total_pnl,
                            starting_balance>>
        ELSE /\ call' = [op |-> "periodic_resync", value |-> None, effect |-> FALSE]
             /\ UNCHANGED <<impl, ledger>>

LoopResync ==
    \E real_usd_balance \in RealUsdBalances,
       real_crypto_holdings \in RealCryptoHoldings :
        /\ impl = "bot"
        /\ call.effect
        /\ IF transactions < MaxTransactions THEN TRUE
           ELSE real_usd_balance = None
        /\ bot_periodic_resync(real_usd_balance, real_crypto_holdings)
        /\ Counted

NextLoop ==
    \/ LoopResync
    \/ UpdatesBotOpen
    \/ UpdatesBotPartialClose
    \/ UpdatesBotClose
    \/ UpdatesBotUpdate

SpecLoop == Init /\ [][NextLoop]_vars

CashOps == {"open_position", "partial_close_position", "close_position"}

\* C18: in the bot's loop the cash balance changes only in an open_position,
\* partial_close_position or close_position call
C18_CashFrame ==
    [][cash_balance' # cash_balance => call'.op \in CashOps]_vars

(***************************************************************************)
(* analyze_and_trade (bot.py 795-1015) in simulation mode, with            *)
(* enhanced_should_buy (strategy.py 139-257), enhanced_should_sell         *)
(* (strategy.py 259-306) and check_tiered_exits (bot.py 757-792).  The     *)
(* candles enter through their number and through what the indicator       *)
(* functions make of them: the RSI, the ATR, the EMA trend and the MACD    *)
(* crossover.                                                              *)
(***************************************************************************)
\* CONFIG["ETH-USD"]
CONFIG ==
    [tier_1_target |-> Frac(110, 100),
     tier_2_target |-> Frac(120, 100),
     rebuy_zone |-> Rat(999999)]

\* atr(highs, lows, closes): None below period + 1 = 15 candles
atr(candles, value) ==
    IF candles < 15 THEN None ELSE value

\* the entry filter: False below 50 candles or when an indicator is missing
\* or zero; else RSI < 32 in an EMA uptrend with ATR/price < 3% and a bullish
\* MACD, or RSI < 25 with the same but whatever the MACD
enhanced_should_buy(candles, current_price, current_rsi, current_atr, ema_uptrend, macd_bullish) ==
    IF candles < 50 THEN FALSE
    ELSE IF current_rsi = Zero \/ atr(candles, current_atr) \in {None, Zero}
    THEN FALSE
    ELSE LET rsi_oversold == Lt(current_rsi, Rat(32))
             super_oversold == Lt(current_rsi, Rat(25))
             volatility_ok == Lt(Div(current_atr, current_price), Frac(3, 100))
         IN  \/ rsi_oversold /\ ema_uptrend /\ volatility_ok /\ macd_bullish
             \/ super_oversold /\ ema_uptrend /\ volatility_ok

\* the exit check: False below 15 candles; else RSI > 70, or the price at or
\* below the stop 1.5 ATR under the entry price
enhanced_should_sell(candles, current_price, entry_price, current_rsi, current_atr) ==
    IF candles < 15 THEN FALSE
    ELSE IF current_rsi # None /\ Lt(Rat(70), current_rsi) THEN TRUE
    ELSE IF atr(candles, current_atr) # None
    THEN Le(current_price, Sub(entry_price, Mul(Frac(15, 10), current_atr)))
    ELSE FALSE

check_tiered_exits(position, current_price, tier_1_target, tier_2_target) ==
    LET tier_1_price == Mul(position.entry_price, tier_1_target)
        tier_2_price == Mul(position.entry_price, tier_2_target)
        trailing_stop_price == position.trailing_stop_price
    IN  IF ~position.tier_1_executed /\ Le(tier_1_price, current_price)
        THEN "SELL_TIER_1"
        ELSE IF /\ position.tier_1_executed
                /\ ~position.tier_2_executed
                /\ Le(tier_2_price, current_price)
        THEN "SELL_TIER_2"
        ELSE IF /\ position.tier_2_executed
                /\ trailing_stop_price # None
                /\ trailing_stop_price # Zero
                /\ Le(current_price, trailing_stop_price)
        THEN "SELL_TIER_3"
        ELSE "HOLD"

\* fault: the tiers are consulted before the emergency exit
bot_sell_decision_tiers_first(position, candles, current_price, current_rsi, current_atr) ==
    LET tiered == check_tiered_exits(position, current_price,
                                     CONFIG.tier_1_target, CONFIG.tier_2_target)
    IN  IF tiered # "HOLD" THEN tiered
        ELSE IF enhanced_should_sell(candles, current_price, position.entry_price,
                                     current_rsi, current_atr)
        THEN "SELL_ALL"
        ELSE "HOLD"

\* priority 1, the emergency exit; priority 2, the tiered exits
bot_sell_decision(position, candles, current_price, current_rsi, current_atr) ==
    IF enhanced_should_sell(candles, current_price, position.entry_price,
                            current_rsi, current_atr)
    THEN "SELL_ALL"
    ELSE check_tiered_exits(position, current_price,
                            CONFIG.tier_1_target, CONFIG.tier_2_target)

\* what a pass leaves to read: its inputs, whether the order it submitted in
\* live mode raised, and the action it decided
Decided(pair, candles, current_price, current_rsi, current_atr, order_raises, action) ==
    [pair |-> pair, candles |-> candles, current_price |-> current_price,
     current_rsi |-> current_rsi, current_atr |-> atr(candles, current_atr),
     order_raises |-> order_raises, action |-> action]

\* fault: the ledger is updated whether or not the order was accepted
order_failed_ignored(SIMULATION, order_raises) == FALSE

\* client.market_order_buy or client.market_order_sell raised: the rest of
\* the try block, the ledger update, is skipped
order_failed(SIMULATION, order_raises) == ~SIMULATION /\ order_raises

\* analyze_and_trade in simulation mode (SIMULATION true) or in live mode,
\* where the order is submitted before the ledger is updated
analyze_and_trade_in(SIMULATION, order_raises, pair, candles, current_price, current_rsi, current_atr, ema_uptrend, macd_bullish) ==
    IF pair \notin DOMAIN positions
    THEN IF /\ enhanced_should_buy(candles, current_price, current_rsi,
                                   current_atr, ema_uptrend, macd_bullish)
            /\ can_signal(pair)
            /\ Le(current_price, CONFIG.rebuy_zone)
         THEN /\ last_signals' = Put(last_signals, pair, now)
              /\ decision' = Decided(pair, candles, current_price, current_rsi,
                                     current_atr, ~SIMULATION /\ order_raises,
                                     "BUY")
              /\ IF /\ ~SIMULATION
                    /\ Le(bot_calculate_position_size(
                              current_price, atr(candles, current_atr)).quantity,
                          Zero)
                 THEN /\ call' = [op |-> "calculate_position_size",
                                  value |-> None, effect |-> FALSE]
                      /\ UNCHANGED <<impl, ledger>>
                 ELSE IF order_failed(SIMULATION, order_raises)
                 THEN /\ call' = [op |-> "market_order_buy", value |-> None,
                                  effect |-> FALSE]
                      /\ UNCHANGED <<impl, ledger>>
                 ELSE bot_open_position(pair, current_price,
                                        atr(candles, current_atr))
         ELSE /\ call' = [op |-> "get_position_status", value |-> None,
                          effect |-> FALSE]
              /\ decision' = Decided(pair, candles, current_price, current_rsi,
                                     current_atr, FALSE, "HOLD")
              /\ UNCHANGED <<impl, ledger, last_signals>>
    ELSE
    LET held == Put(positions, pair, bot_updated(positions[pair], current_price))
        action == bot_sell_decision(held[pair], candles, current_price,
                                    current_rsi, current_atr)
    IN  /\ decision' = Decided(pair, candles, current_price, current_rsi,
                               current_atr,
                               ~SIMULATION /\ order_raises /\ action # "HOLD",
                               action)
        /\ UNCHANGED last_signals
        /\ IF action = "HOLD" \/ order_failed(SIMULATION, order_raises)
           THEN /\ positions' = held
                /\ call' = [op |-> IF action = "HOLD"
                                   THEN "update_unrealized_pnl"
                                   ELSE "market_order_sell",
                            pair |-> pair, value |-> None, effect |-> TRUE]
                /\ UNCHANGED <<impl, trade_history, total_pnl, cash_balance,
                               starting_balance>>
           ELSE IF action = "SELL_TIER_1"
           THEN bot_partial_close_held(held, pair, current_price, Frac(30, 100),
                                       "TIER_1", "TIER_1_PROFIT")
           ELSE IF action = "SELL_TIER_2"
           THEN bot_partial_close_held(held, pair, current_price, Frac(30, 100),
                                       "TIER_2", "TIER_2_PROFIT")
           ELSE IF action = "SELL_TIER_3"
           THEN bot_close_held(held, pair, current_price,
                               IF SIMULATION THEN "TIER_3_TRAILING" ELSE action)
           ELSE bot_close_held(held, pair, current_price, action)

\* SIMULATION defaults to true
analyze_and_trade(pair, candles, current_price, current_rsi, current_atr, ema_uptrend, macd_bullish) ==
    analyze_and_trade_in(TRUE, FALSE, pair, candles, current_price, current_rsi,
                         current_atr, ema_uptrend, macd_bullish)

TradePair == "ETH-USD"

TradePrices == {Rat(9), Rat(12), Rat(15)}

\* candle histories: too short for the exit check, too short for the entry
\* filter only, long enough for both
CandleCounts == {10, 20, 60}

\* the RSI of a history: none is computed from fewer than 15 candles
RsiValues(candles) ==
    IF candles < 15 THEN {None} ELSE {Rat(20), Rat(50), Rat(80)}

\* the ATR of a history
AtrInputs(candles) ==
    IF candles < 15 THEN {None} ELSE {Frac(1, 10), Rat(2)}

\* one pass of run_bot over the pair, all within one throttle window
AnalyzeAndTrade ==
    \E current_price \in TradePrices, candles \in CandleCounts,
       ema_uptrend \in BOOLEAN, macd_bullish \in BOOLEAN :
        \E current_rsi \in RsiValues(candles),
           current_atr \in AtrInputs(candles) :
            /\ impl = "bot"
            /\ analyze_and_trade(TradePair, candles, current_price, current_rsi,
                                 current_atr, ema_uptrend, macd_bullish)
            /\ UNCHANGED <<transactions, replaced, now, cycle, status, main>>

NextTrade == AnalyzeAndTrade

SpecTrade == Init /\ [][NextTrade]_vars

\* the price is at or below the stop 1.5 ATR under the position's entry price
HardStop(position, current_price, current_atr) ==
    /\ current_atr # None
    /\ Le(current_price, Sub(position.entry_price, Mul(Frac(15, 10), current_atr)))

\* C20: when analyze_and_trade finds a position, has an ATR and the price is
\* at or below entry_price - 1.5 x ATR, it decides SELL_ALL and closes the
\* whole remaining quantity at that price in one trade record, whatever the
\* tier flags and the trailing stop are
C20_HardStopPriority ==
    [][ /\ decision'.pair \in DOMAIN positions
        /\ HardStop(positions[decision'.pair], decision'.current_price,
                    decision'.current_atr)
        => LET pair == decision'.pair
               sold == trade_history'[Len(trade_history')]
           IN  /\ decision'.action = "SELL_ALL"
               /\ pair \notin DOMAIN positions'
               /\ Len(trade_history') = Len(trade_history) + 1
               /\ sold.action = "SELL_ALL"
               /\ sold.quantity = positions[pair].current_quantity
               /\ sold.exit_price = decision'.current_price
               /\ cash_balance' = Add(cash_balance,
                      Mul(decision'.current_price, positions[pair].current_quantity))
      ]_vars

\* both tiers had been sold and the trailing stop was set when the price fell
\* through the ATR stop at an RSI of 50, and the rest was closed
C20_Witness ==
    /\ decision # None
    /\ decision.action = "SELL_ALL"
    /\ decision.current_rsi = Rat(50)
    /\ decision.current_atr # None
    /\ Len(trade_history) = 4
    /\ trade_history[2].action = "TIER_1_PROFIT_TIER_1"
    /\ trade_history[3].action = "TIER_2_PROFIT_TIER_2"
    /\ trade_history[4].action = "SELL_ALL"
    /\ Le(trade_history[4].exit_price,
          Sub(trade_history[4].entry_price, Mul(Frac(15, 10), decision.current_atr)))

\* C21: when analyze_and_trade finds a position whose tier 1 is not executed,
\* whose ATR stop is not breached and whose price has reached
\* entry_price x tier_1_target, it decides SELL_TIER_1 and sells 30% of the
\* original quantity in one TIER_1 record, keeping the position
C21_Tier1Decision ==
    [][ /\ decision'.pair \in DOMAIN positions
        /\ ~positions[decision'.pair].tier_1_executed
        /\ ~HardStop(positions[decision'.pair], decision'.current_price,
                     decision'.current_atr)
        /\ Le(Mul(positions[decision'.pair].entry_price, CONFIG.tier_1_target),
              decision'.current_price)
        => LET pair == decision'.pair
               sold == trade_history'[Len(trade_history')]
           IN  /\ decision'.action = "SELL_TIER_1"
               /\ pair \in DOMAIN positions'
               /\ positions'[pair].tier_1_executed
               /\ Len(trade_history') = Len(trade_history) + 1
               /\ sold.action = "TIER_1_PROFIT_TIER_1"
               /\ sold.quantity = Mul(positions[pair].original_quantity,
                                      Frac(30, 100))
      ]_vars

\* the candle history is too short for the indicators the pass needs: fewer
\* than 50 candles for the entry filter of a pair without a position, fewer
\* than 15 for the exit check of a held pair
InsufficientData(pair, candles) ==
    IF pair \in DOMAIN positions THEN candles < 15 ELSE candles < 50

\* C22: a pass of analyze_and_trade over a candle history that is too short
\* decides HOLD and leaves the ledger as it was (the price marks of a held
\* position aside): no position opened, sold or closed, no trade recorded,
\* cash and realised profit unchanged
C22_InsufficientDataHold ==
    [][ InsufficientData(decision'.pair, decision'.candles)
        => /\ decision'.action = "HOLD"
           /\ UNCHANGED <<trade_history, total_pnl, cash_balance>>
           /\ DOMAIN positions' = DOMAIN positions
           /\ \A pair \in DOMAIN positions :
                 Unwritten(positions'[pair], positions[pair]) = positions[pair]
      ]_vars

(***************************************************************************)
(* The passes of analyze_and_trade over one pair as the clock moves on:    *)
(* main_loop (bot.py 1145-1173) calls run_bot, sleeps and calls it again.  *)
(***************************************************************************)
EntryPrices == {Rat(12)}

\* a pass of run_bot over the pair at the present clock reading
EntryPass ==
    \E current_price \in EntryPrices, candles \in CandleCounts,
       ema_uptrend \in BOOLEAN, macd_bullish \in BOOLEAN :
        \E current_rsi \in RsiValues(candles),
           current_atr \in AtrInputs(candles) :
            /\ impl = "bot"
            /\ analyze_and_trade(TradePair, candles, current_price, current_rsi,
                                 current_atr, ema_uptrend, macd_bullish)
            /\ UNCHANGED <<transactions, replaced, now, cycle, status, main>>

\* the sleep between two cycles
EntrySleep == Tick

NextEntries ==
    \/ EntryPass
    \/ EntrySleep

SpecEntries == Init /\ [][NextEntries]_vars

\* C23: a pass over a pair without a position inside the pair's throttle
\* window (can_signal false) decides HOLD, opens no position and leaves the
\* pair's throttle timestamp as it was; a pass decides BUY only outside the
\* window (can_signal true) and when the
\* buy filter passed (at least 50 candles, RSI under 32, ATR under 3% of the
\* price)
C23_ThrottleGate ==
    [][ decision' # decision /\ decision'.pair \notin DOMAIN positions
        => LET pair == decision'.pair
           IN  /\ ~Ready(pair, last_signals, now)
                  => /\ decision'.action = "HOLD"
                     /\ positions' = positions
                     /\ last_signals' = last_signals
               /\ decision'.action = "BUY"
                  => /\ Ready(pair, last_signals, now)
                     /\ decision'.candles >= 50
                     /\ Lt(decision'.current_rsi, Rat(32))
                     /\ Lt(Div(decision'.current_atr, decision'.current_price),
                           Frac(3, 100))
      ]_vars

\* the filter passed one second before the end of the pair's throttle window,
\* after the position was closed, and the pass held
C23_Witness ==
    /\ decision # None
    /\ decision.action = "HOLD"
    /\ decision.candles = 60
    /\ decision.current_rsi = Rat(20)
    /\ decision.current_atr = Frac(1, 10)
    /\ TradePair \notin DOMAIN positions
    /\ TradePair \in DOMAIN last_signals
    /\ now = last_signals[TradePair] + throttle_seconds - 1
    /\ Len(trade_history) = 2

\* C30: a pass decides BUY for a pair no sooner than throttle_seconds after
\* the previous BUY decided for that pair, whether or not the position that
\* BUY opened was closed in between; the time of a BUY is what the pair's
\* throttle timestamp holds until the next one
C30_EntrySpacing ==
    [][ decision' # decision /\ decision'.action = "BUY"
        => LET pair == decision'.pair
           IN  /\ pair \in DOMAIN last_signals
                  => now - last_signals[pair] >= throttle_seconds
               /\ last_signals'[pair] = now
               /\ now' = now
      ]_vars /\
    [][ \A pair \in DOMAIN last_signals :
          /\ pair \in DOMAIN last_signals'
          /\ last_signals'[pair] # last_signals[pair]
             => decision' # decision /\ decision'.action = "BUY"
      ]_vars

\* the position bought at 0 was closed and the pair bought again at the end
\* of the window
C30_Witness ==
    /\ decision # None
    /\ decision.action = "BUY"
    /\ Len(trade_history) = 3
    /\ trade_history[1].action = "BUY"
    /\ trade_history[2].action = "SELL_ALL"
    /\ trade_history[3].action = "BUY"
    /\ now = throttle_seconds
    /\ last_signals[TradePair] = throttle_seconds

(***************************************************************************)
(* Live mode (SIMULATION false): the passes of analyze_and_trade over one  *)
(* pair, each order accepted or refused by the exchange client.            *)
(***************************************************************************)
LivePass ==
    \E current_price \in TradePrices, candles \in CandleCounts,
       ema_uptrend \in BOOLEAN, macd_bullish \in BOOLEAN,
       order_raises \in BOOLEAN :
        \E current_rsi \in RsiValues(candles),
           current_atr \in AtrInputs(candles) :
            /\ impl = "bot"
            /\ analyze_and_trade_in(FALSE, order_raises, TradePair, candles,
                                    current_price, current_rsi, current_atr,
                                    ema_uptrend, macd_bullish)
            /\ UNCHANGED <<transactions, replaced, now, cycle, status, main>>

NextLive == LivePass

SpecLive == Init /\ [][NextLive]_vars

\* C26: a live pass whose buy or sell order raised leaves cash_balance,
\* total_pnl and trade_history as they were and positions as they were when
\* the action was decided: no position added or removed, and the held
\* position exactly as the pass's price update left it before the order
C26_OrderFailure ==
    [][ decision' # None /\ decision'.order_raises
        => LET pair == decision'.pair
           IN  /\ UNCHANGED <<cash_balance, total_pnl, trade_history>>
               /\ DOMAIN positions' = DOMAIN positions
               /\ decision'.action = "BUY" => pair \notin DOMAIN positions'
               /\ decision'.action # "BUY"
                  => /\ positions'[pair] =
                           bot_updated(positions[pair], decision'.current_price)
                     /\ Unwritten(positions'[pair], positions[pair])
                           = positions[pair]
      ]_vars

\* a live tier 1 exit went through, and the order of the tier 2 exit decided
\* at the next pass raised
C26_Witness ==
    /\ decision # None
    /\ decision.order_raises
    /\ decision.action = "SELL_TIER_2"
    /\ call.op = "market_order_sell"
    /\ Len(trade_history) = 2
    /\ trade_history[2].action = "TIER_1_PROFIT_TIER_1"
    /\ TradePair \in DOMAIN positions
    /\ ~positions[TradePair].tier_2_executed

\* the order of a live BUY raised
C26_WitnessBuy ==
    /\ decision # None
    /\ decision.order_raises
    /\ decision.action = "BUY"
    /\ call.op = "market_order_buy"
    /\ positions = [x \in {} |-> None]

(***************************************************************************)
(* run_bot (bot.py 1068-1142): one pass over TRADING_PAIRS, each pair in   *)
(* its own try block, then the CSV export and print_summary; main_loop     *)
(* (bot.py 1155-1173) sleeps and starts the next cycle, also after an      *)
(* exception out of run_bot.                                               *)
(***************************************************************************)
\* print_summary (bot.py 364-418): t["pnl_usd"] > 0 over the trade history
\* raises TypeError on a str, which is what a BUY record holds
print_summary ==
    IF \E i \in 1..Len(trade_history) : trade_history[i].pnl_usd \in STRING
    THEN "TypeError"
    ELSE "printed"

\* fault: the except clause is outside the for loop
after_failure_abort(todo) == <<>>

\* the except clause is inside the for loop: the loop goes on to the next pair
after_failure(todo) == Tail(todo)

\* fetch_candles raises (bot.py 752-754), or analyze_and_trade catches its own
\* exception on an empty candle response (bot.py 811-818, 1014-1015)
CycleFailure ==
    \E op \in {"fetch_candles", "analyze_and_trade"} :
        /\ impl = "bot"
        /\ cycle.todo # <<>>
        /\ call' = [op |-> op, pair |-> Head(cycle.todo), value |-> None,
                    effect |-> FALSE]
        /\ cycle' = [cycle EXCEPT !.todo = after_failure(cycle.todo),
                                  !.raised = @ \cup {Head(cycle.todo)}]
        /\ UNCHANGED <<impl, ledger, transactions, replaced, now, last_signals,
                       decision, status, main>>

CycleAnalyze ==
    \E current_price \in EntryPrices, candles \in CandleCounts,
       ema_uptrend \in BOOLEAN, macd_bullish \in BOOLEAN :
        \E current_rsi \in RsiValues(candles),
           current_atr \in AtrInputs(candles) :
            /\ impl = "bot"
            /\ cycle.todo # <<>>
            /\ analyze_and_trade(Head(cycle.todo), candles, current_price,
                                 current_rsi, current_atr, ema_uptrend,
                                 macd_bullish)
            /\ cycle' = [cycle EXCEPT !.todo = Tail(cycle.todo)]
            /\ UNCHANGED <<transactions, replaced, now, status, main>>

CycleSummary ==
    /\ impl = "bot"
    /\ cycle.todo = <<>>
    /\ cycle.summary = "pending"
    /\ cycle' = [cycle EXCEPT !.summary = print_summary]
    /\ call' = [op |-> "print_summary", value |-> print_summary,
                effect |-> FALSE]
    /\ UNCHANGED <<impl, ledger, transactions, replaced, now, last_signals,
                   decision, status, main>>

\* the clock readings at which cycles start: the first, and those just
\* before and at the end of the throttle window of a signal of the first
CycleClock == {0, throttle_seconds - 1, throttle_seconds}

CycleSleep ==
    /\ impl = "bot"
    /\ cycle.summary # "pending"
    /\ \E t \in CycleClock : t > now /\ now' = t
    /\ cycle' = [todo |-> TRADING_PAIRS, raised |-> {}, summary |-> "pending"]
    /\ UNCHANGED <<impl, ledger, call, transactions, replaced, last_signals,
                   decision, status, main>>

NextCycle ==
    \/ CycleFailure
    \/ CycleAnalyze
    \/ CycleSummary
    \/ CycleSleep

SpecCycle == Init /\ [][NextCycle]_vars

\* C24: an exception while fetching or analysing a pair changes nothing in
\* the ledger, so no other pair's position, and does not end the cycle: the
\* pairs after it stay to be processed, pairs are taken in order one at a
\* time, and the cycle closes with the summary only when none is left
C24_Isolation ==
    [][ /\ cycle'.raised # cycle.raised /\ cycle'.raised # {}
           => /\ UNCHANGED ledger
              /\ cycle'.todo = Tail(cycle.todo)
              /\ cycle'.summary = "pending"
        /\ cycle'.todo # cycle.todo
           => IF cycle.todo = <<>> THEN cycle.summary # "pending"
              ELSE cycle'.todo = Tail(cycle.todo)
        /\ cycle'.summary # "pending" /\ cycle.summary = "pending" => cycle.todo = <<>>
      ]_vars

\* the first pair of the cycle raised and the second was bought in the same
\* cycle
C24_Witness ==
    /\ cycle.raised = {TRADING_PAIRS[1]}
    /\ cycle.todo = <<>>
    /\ decision # None
    /\ decision.pair = TRADING_PAIRS[2]
    /\ decision.action = "BUY"
    /\ DOMAIN positions = {TRADING_PAIRS[2]}
    /\ Len(trade_history) = 1

\* C25: print_summary at the end of a cycle completes without error
C25_SummaryProduced ==
    cycle.summary \in {"pending", "printed"}

(***************************************************************************)
(* The bot tracker buying out of one pair more than MAX_POSITIONS, with    *)
(* the periodic resync of main_loop in between.  sync_with_coinbase runs   *)
(* once, inside the constructor: Init is the state it leaves (with         *)
(* holdings to convert it raises NameError on PAIRS at bot.py 67 and no    *)
(* tracker is constructed).                                                *)
(***************************************************************************)
LimitOpen ==
    \E pair \in BuyPairs \ DOMAIN positions :
        \E price \in Prices(pair), atr_value \in AtrValues(pair) :
            /\ impl = "bot"
            /\ bot_open_position(pair, price, atr_value)
            /\ UNCHANGED <<transactions, replaced, loop>>

\* the USD balance of the account: unreadable, or refilled to 1000
LimitUsdBalances == {None, Rat(1000)}

LimitResync ==
    \E real_usd_balance \in LimitUsdBalances,
       real_crypto_holdings \in RealCryptoHoldings :
        /\ impl = "bot"
        /\ bot_periodic_resync(real_usd_balance, real_crypto_holdings)
        /\ UNCHANGED <<transactions, replaced, loop>>

NextLimit ==
    \/ LimitOpen
    \/ LimitResync

SpecLimit == Init /\ [][NextLimit]_vars

C27_WitnessRefused ==
    /\ Cardinality(DOMAIN positions) = MAX_POSITIONS
    /\ call.op = "open_position"
    /\ call.value = FALSE
    /\ cash_balance = Rat(1000)

\* C28: a portfolio execute_tier_exit on a held pair for tier 1 or 2 whose
\* flag is already true, or for any other tier number, returns 0 and leaves
\* cash, realised profit, trade history and the positions (remaining
\* quantities and tier flags included) as they were; and no
\* execute_tier_exit call turns a tier flag of a position from true to false
C28_TierExitOnce ==
    [][ /\ \A pair \in Pairs \cap DOMAIN positions :
            \A price \in Prices(pair), tier \in Tiers :
               ( /\ impl = "portfolio"
                 /\ \/ tier = 1 /\ positions[pair].tier_1_sold
                    \/ tier = 2 /\ positions[pair].tier_2_sold
                    \/ tier \notin {1, 2}
                 /\ portfolio_execute_tier_exit(pair, price, tier) )
               => /\ call'.value = Zero
                  /\ UNCHANGED <<cash_balance, total_pnl, trade_history>>
                  /\ positions' = positions
        /\ impl = "portfolio" /\ call'.op = "execute_tier_exit"
           => \A pair \in DOMAIN positions \cap DOMAIN positions' :
                 /\ positions[pair].tier_1_sold => positions'[pair].tier_1_sold
                 /\ positions[pair].tier_2_sold => positions'[pair].tier_2_sold
      ]_vars

\* tier 1 of a position was sold and a second execute_tier_exit for a tier
\* that does not sell returned 0
C28_Witness ==
    /\ impl = "portfolio"
    /\ call.op = "execute_tier_exit"
    /\ call.value = Zero
    /\ ~call.effect
    /\ Len(trade_history) = 1
    /\ trade_history[1].type = "TIER_1_EXIT"
    /\ \E pair \in DOMAIN positions :
          positions[pair].tier_1_sold /\ ~positions[pair].tier_2_sold

(***************************************************************************)
(* The decision flow of trading_strategy.py on the portfolio tracker:      *)
(* enhanced_should_sell (101-155) decides, execute_sell_action (157-172)   *)
(* applies the decision at the same price.  Together with the bot's        *)
(* analyze_and_trade these are the two decision flows.                     *)
(***************************************************************************)
\* update_position (portfolio.py 208-239) as a function of the position
portfolio_updated(position, current_price) ==
    LET entry_price == position.entry_price
        remaining_quantity == position.remaining_quantity
        highest_price == IF Lt(position.highest_price, current_price)
                         THEN current_price ELSE position.highest_price
        gain_pct == Div(Sub(current_price, entry_price), entry_price)
        activated == /\ Le(TRAILING_STOP_ACTIVATION_PCT, gain_pct)
                     /\ ~position.trailing_stop_active
        active == activated \/ position.trailing_stop_active
        stop_price == IF activated
                      THEN Mul(current_price, Sub(Rat(1), TRAILING_STOP_DISTANCE_PCT))
                      ELSE position.trailing_stop_price
        new_stop_price == Mul(highest_price, Sub(Rat(1), TRAILING_STOP_DISTANCE_PCT))
    IN  [position EXCEPT
            !.position_value = Mul(current_price, remaining_quantity),
            !.unrealized_pnl = Mul(Sub(current_price, entry_price),
                                   remaining_quantity),
            !.highest_price = highest_price,
            !.trailing_stop_active = active,
            !.trailing_stop_price =
                IF active /\ Lt(stop_price, new_stop_price)
                THEN new_stop_price ELSE stop_price]

\* check_trailing_stop (portfolio.py 241-251)
check_trailing_stop(position, current_price) ==
    /\ position.trailing_stop_active
    /\ position.trailing_stop_price # None
    /\ position.trailing_stop_price # Zero
    /\ Le(current_price, position.trailing_stop_price)

\* (tp1_price, tp2_price): 2 ATR and 4 ATR above the price given
get_dynamic_targets(current_price, atr_value) ==
    IF atr_value = None \/ Le(atr_value, Zero) THEN <<None, None>>
    ELSE <<Add(current_price, Mul(Rat(2), atr_value)),
           Add(current_price, Mul(Rat(4), atr_value))>>

\* fault: the second target is tested before the first
strategy_sell_action_tier_2_first(position, candles, current_price, current_rsi, current_atr) ==
    LET targets == get_dynamic_targets(position.entry_price,
                                       atr(candles, current_atr))
        tp1_price == targets[1]
        tp2_price == targets[2]
    IN  IF current_rsi = None \/ tp1_price = None THEN "HOLD"
        ELSE IF Lt(Rat(70), current_rsi) THEN "SELL (RSI)"
        ELSE IF Le(current_price,
                   Sub(position.entry_price, Mul(Frac(15, 10), current_atr)))
        THEN "SELL (ATR STOP)"
        ELSE IF check_trailing_stop(position, current_price)
        THEN "SELL (TRAILING STOP)"
        ELSE IF ~position.tier_2_sold /\ Le(tp2_price, current_price)
        THEN "TIER_2_EXIT"
        ELSE IF ~position.tier_1_sold /\ Le(tp1_price, current_price)
        THEN "TIER_1_EXIT"
        ELSE "HOLD"

\* the action enhanced_should_sell of trading_strategy.py returns for a
\* position already updated at the price; formatting a missing RSI or target
\* raises, which the function turns into HOLD
strategy_sell_action(position, candles, current_price, current_rsi, current_atr) ==
    LET targets == get_dynamic_targets(position.entry_price,
                                       atr(candles, current_atr))
        tp1_price == targets[1]
        tp2_price == targets[2]
    IN  IF current_rsi = None \/ tp1_price = None THEN "HOLD"
        ELSE IF Lt(Rat(70), current_rsi) THEN "SELL (RSI)"
        ELSE IF Le(current_price,
                   Sub(position.entry_price, Mul(Frac(15, 10), current_atr)))
        THEN "SELL (ATR STOP)"
        ELSE IF check_trailing_stop(position, current_price)
        THEN "SELL (TRAILING STOP)"
        ELSE IF ~position.tier_1_sold /\ Le(tp1_price, current_price)
        THEN "TIER_1_EXIT"
        ELSE IF ~position.tier_2_sold /\ Le(tp2_price, current_price)
        THEN "TIER_2_EXIT"
        ELSE "HOLD"

\* the caller buys a pair it does not hold
FlowOpen ==
    \E current_price \in EntryPrices, atr_value \in AtrInputs(60) :
        /\ impl = "portfolio"
        /\ call.op # "enhanced_should_sell"
        /\ TradePair \notin DOMAIN positions
        /\ Len(trade_history) < 2
        /\ portfolio_open_position(TradePair, current_price, atr_value)
        /\ UNCHANGED <<transactions, replaced, loop>>

\* enhanced_should_sell: no decision below 15 candles or without a position;
\* else the position is updated at the price and the action decided
FlowDecide ==
    \E current_price \in TradePrices, candles \in CandleCounts :
        \E current_rsi \in RsiValues(candles),
           current_atr \in AtrInputs(candles) :
            /\ impl = "portfolio"
            /\ call.op # "enhanced_should_sell"
            /\ IF candles < 15 \/ TradePair \notin DOMAIN positions
               THEN /\ decision' = Decided(TradePair, candles, current_price,
                                           current_rsi, current_atr, FALSE,
                                           "HOLD")
                    /\ UNCHANGED positions
               ELSE LET position == portfolio_updated(positions[TradePair],
                                                      current_price)
                    IN  /\ positions' = Put(positions, TradePair, position)
                        /\ decision' = Decided(TradePair, candles,
                               current_price, current_rsi, current_atr, FALSE,
                               strategy_sell_action(position, candles,
                                   current_price, current_rsi, current_atr))
            /\ call' = [op |-> "enhanced_should_sell", pair |-> TradePair,
                        value |-> decision'.action, effect |-> TRUE]
            /\ UNCHANGED <<impl, trade_history, total_pnl, cash_balance,
                           starting_balance, transactions, replaced, now,
                           last_signals, cycle, status, main>>

\* execute_sell_action with the action decided, at the price of the decision
FlowExecute ==
    /\ impl = "portfolio"
    /\ call.op = "enhanced_should_sell"
    /\ IF decision.action = "TIER_1_EXIT"
       THEN portfolio_execute_tier_exit(decision.pair, decision.current_price, 1)
       ELSE IF decision.action = "TIER_2_EXIT"
       THEN portfolio_execute_tier_exit(decision.pair, decision.current_price, 2)
       ELSE IF decision.action # "HOLD"
       THEN portfolio_close_position(decision.pair, decision.current_price)
       ELSE /\ call' = [op |-> "execute_sell_action", value |-> Zero,
                        effect |-> FALSE]
            /\ UNCHANGED <<impl, ledger>>
    /\ UNCHANGED <<transactions, replaced, loop>>

NextFlows ==
    \/ AnalyzeAndTrade
    \/ FlowOpen
    \/ FlowDecide
    \/ FlowExecute

SpecFlows == Init /\ [][NextFlows]_vars

\* C29: in both decision flows a position whose tier 2 has been executed has
\* its tier 1 executed as well
C29_TierOrdering ==
    \A pair \in DOMAIN positions :
        TierFlags(positions[pair])[2] => TierFlags(positions[pair])[1]

\* the portfolio flow sold tier 1 and then tier 2 of a position
C29_Witness ==
    /\ impl = "portfolio"
    /\ call.op = "execute_tier_exit"
    /\ decision.action = "TIER_2_EXIT"
    /\ TradePair \in DOMAIN positions
    /\ positions[TradePair].tier_1_sold
    /\ positions[TradePair].tier_2_sold

\* the bot flow sold tier 1 and then tier 2 of a position
C29_WitnessBot ==
    /\ impl = "bot"
    /\ decision # None
    /\ decision.action = "SELL_TIER_2"
    /\ TradePair \in DOMAIN positions
    /\ positions[TradePair].tier_1_executed
    /\ positions[TradePair].tier_2_executed

(***************************************************************************)
(* The /status handler (bot.py 557-576) runs in the Flask thread started   *)
(* by main_loop (bot.py 1149-1151) while the trading thread writes the     *)
(* ledger.  No lock is taken on either side: the threads interleave        *)
(* between the statements of open_position and close_position and between *)
(* the reads of the handler.                                               *)
(***************************************************************************)
\* what the handler reports of the ledger, were it read at once
Snapshot == <<total_pnl, cash_balance, Cardinality(DOMAIN positions), Len(trade_history)>>

\* the ledger at the boundaries of the transactions so far
Boundaries == {<<Zero, Rat(STARTING_BALANCE_USD), 0, 0>>} \cup main.consistent

\* open_position up to its first write: self.positions[pair] = {...}
StatusOpenBegin ==
    \E pair \in {TRADING_PAIRS[1], TRADING_PAIRS[2]}, price \in EntryPrices, atr_value \in AtrInputs(60) :
        LET quantity == bot_calculate_position_size(price, atr_value).quantity
        IN  /\ impl = "bot"
            /\ main.pc = "start"
            /\ pair \notin DOMAIN positions
            /\ Len(trade_history) < 3
            /\ ~bot_open_refused(quantity, price)
            /\ positions' = Put(positions, pair,
                   [entry_price |-> price,
                    original_quantity |-> quantity,
                    current_quantity |-> quantity,
                    tier_1_sold |-> Zero,
                    tier_2_sold |-> Zero,
                    tier_1_executed |-> FALSE,
                    tier_2_executed |-> FALSE,
                    highest_price |-> price,
                    trailing_stop_price |-> None,
                    unrealized_pnl |-> Zero])
            /\ main' = [main EXCEPT !.pc = "open_position:cash_balance"] @@ [pair |-> pair, price |-> price, quantity |-> quantity]
            /\ UNCHANGED <<impl, trade_history, total_pnl, cash_balance, starting_balance, call, transactions, replaced, now, last_signals, decision, cycle, status>>

\* self.cash_balance -= trade_value
StatusOpenCash ==
    /\ main.pc = "open_position:cash_balance"
    /\ cash_balance' = Sub(cash_balance, bot_trade_value(main.quantity, main.price))
    /\ main' = [main EXCEPT !.pc = "open_position:trade_history"]
    /\ UNCHANGED <<impl, positions, trade_history, total_pnl, starting_balance, call, transactions, replaced, now, last_signals, decision, cycle, status>>

\* self.trade_history.append(buy_trade): the transaction is complete
StatusOpenRecord ==
    /\ main.pc = "open_position:trade_history"
    /\ trade_history' = Append(trade_history,
           [pair |-> main.pair, action |-> "BUY", entry_price |-> main.price,
            exit_price |-> "", quantity |-> main.quantity,
            pnl_usd |-> "", pnl_percent |-> ""])
    /\ call' = [op |-> "open_position", value |-> TRUE, effect |-> TRUE]
    /\ main' = [pc |-> "start", loop_count |-> main.loop_count,
                consistent |-> main.consistent \cup
                    {<<total_pnl, cash_balance, Cardinality(DOMAIN positions), Len(trade_history) + 1>>}]
    /\ UNCHANGED <<impl, positions, total_pnl, cash_balance, starting_balance, transactions, replaced, now, last_signals, decision, cycle, status>>

\* close_position up to its first write: self.trade_history.append(trade)
StatusCloseBegin ==
    \E pair \in DOMAIN positions, exit_price \in TradePrices :
        LET position == positions[pair]
            pnl_usd == Mul(Sub(exit_price, position.entry_price), position.current_quantity)
        IN  /\ impl = "bot"
            /\ main.pc = "start"
            /\ trade_history' = Append(trade_history,
                   [pair |-> pair, action |-> "SELL",
                    entry_price |-> position.entry_price,
                    exit_price |-> exit_price,
                    quantity |-> position.current_quantity,
                    pnl_usd |-> pnl_usd,
                    pnl_percent |-> Mul(Div(Sub(exit_price, position.entry_price), position.entry_price), Rat(100))])
            /\ main' = [main EXCEPT !.pc = "close_position:total_pnl"] @@ [pair |-> pair, price |-> exit_price, quantity |-> position.current_quantity, pnl_usd |-> pnl_usd]
            /\ UNCHANGED <<impl, positions, total_pnl, cash_balance, starting_balance, call, transactions, replaced, now, last_signals, decision, cycle, status>>

\* self.total_pnl += pnl_usd
StatusClosePnl ==
    /\ main.pc = "close_position:total_pnl"
    /\ total_pnl' = Add(total_pnl, main.pnl_usd)
    /\ main' = [main EXCEPT !.pc = "close_position:positions"]
    /\ UNCHANGED <<impl, positions, trade_history, cash_balance, starting_balance, call, transactions, replaced, now, last_signals, decision, cycle, status>>

\* del self.positions[pair]
StatusCloseDel ==
    /\ main.pc = "close_position:positions"
    /\ positions' = Del(positions, main.pair)
    /\ main' = [main EXCEPT !.pc = "close_position:cash_balance"]
    /\ UNCHANGED <<impl, trade_history, total_pnl, cash_balance, starting_balance, call, transactions, replaced, now, last_signals, decision, cycle, status>>

\* self.cash_balance += sale_proceeds: the transaction is complete
StatusCloseCash ==
    /\ main.pc = "close_position:cash_balance"
    /\ cash_balance' = Add(cash_balance, Mul(main.price, main.quantity))
    /\ call' = [op |-> "close_position", value |-> main.pnl_usd, effect |-> TRUE]
    /\ main' = [pc |-> "start", loop_count |-> main.loop_count,
                consistent |-> main.consistent \cup
                    {<<total_pnl, cash_balance', Cardinality(DOMAIN positions), Len(trade_history)>>}]
    /\ UNCHANGED <<impl, positions, trade_history, total_pnl, starting_balance, transactions, replaced, now, last_signals, decision, cycle, status>>

\* bot_status evaluates the entries of its dict one after the other:
\* total_pnl, cash_balance, len(positions), len(trade_history); a new request
\* starts a new dict
StatusRead ==
    /\ impl = "bot"
    /\ status' = IF status.read = 0 \/ status.read = 4
                 THEN [read |-> 1, total_pnl |-> total_pnl]
                 ELSE IF status.read = 1
                 THEN [read |-> 2, cash_balance |-> cash_balance] @@ status
                 ELSE IF status.read = 2
                 THEN [read |-> 3, open_positions |-> Cardinality(DOMAIN positions)] @@ status
                 ELSE [read |-> 4, total_trades |-> Len(trade_history)] @@ status
    /\ UNCHANGED <<impl, ledger, call, transactions, replaced, now, last_signals, decision, cycle, main>>

NextStatus ==
    \/ StatusOpenBegin
    \/ StatusOpenCash
    \/ StatusOpenRecord
    \/ StatusCloseBegin
    \/ StatusClosePnl
    \/ StatusCloseDel
    \/ StatusCloseCash
    \/ StatusRead

SpecStatus == Init /\ [][NextStatus]_vars

\* C31: every status the handler returns is the ledger as it stood before
\* or after a complete open_position or close_position, never a state in
\* between
C31_SnapshotConsistency ==
    status.read = 4
    => <<status.total_pnl, status.cash_balance, status.open_positions, status.total_trades>> \in Boundaries

(***************************************************************************)
(* main_loop (bot.py 1145-1173): the while loop, its try block (resync on  *)
(* every 10th value of loop_count, run_bot, the increment, the sleep) and  *)
(* its two except clauses.  loop_count is kept modulo 10, which is all the *)
(* loop reads of it.  The clock is not read by these actions.              *)
(***************************************************************************)
\* the saturation of the cycle counter main.since
MaxSince == 12

\* fault: the exception leaves the while loop
after_exception_escapes == "stopped"

\* except Exception (bot.py 1170-1173): print, sleep, back to the loop
after_exception == "except"

\* the cycles started since the last periodic_resync, that of the resync
\* included
CyclesSince == IF "since" \in DOMAIN main THEN main.since ELSE 0

\* a cycle starts with loop_count % 10 == 0: periodic_resync is called
MainResync ==
    \E real_usd_balance \in LimitUsdBalances, real_crypto_holdings \in RealCryptoHoldings :
        /\ impl = "bot"
        /\ main.pc = "start"
        /\ main.loop_count % 10 = 0
        /\ bot_periodic_resync(real_usd_balance, real_crypto_holdings)
        /\ main' = [pc |-> "run_bot", since |-> 1] @@ main
        /\ UNCHANGED <<transactions, replaced, now, last_signals, decision, cycle, status>>

\* a cycle starts with another loop_count
MainNoResync ==
    /\ impl = "bot"
    /\ main.pc = "start"
    /\ main.loop_count % 10 # 0
    /\ main' = [pc |-> "run_bot", since |-> IF CyclesSince < MaxSince THEN CyclesSince + 1 ELSE MaxSince] @@ main
    /\ UNCHANGED <<impl, ledger, call, transactions, replaced, now, last_signals, decision, cycle, status>>

\* run_bot: the pairs are processed (here: at most one position is opened),
\* then print_summary is called outside any try; when it raises, the
\* exception reaches main_loop and loop_count += 1 is skipped
MainRunBot ==
    \E buy \in BOOLEAN, pair \in {TRADING_PAIRS[1], TRADING_PAIRS[2]}, price \in EntryPrices, atr_value \in AtrInputs(60) :
        /\ impl = "bot"
        /\ main.pc = "run_bot"
        /\ IF buy /\ pair \notin DOMAIN positions
           THEN bot_open_position(pair, price, atr_value)
           ELSE /\ call' = [op |-> "run_bot", value |-> print_summary, effect |-> FALSE]
                /\ UNCHANGED <<impl, ledger>>
        /\ main' = IF print_summary' = "TypeError"
                   THEN [main EXCEPT !.pc = after_exception]
                   ELSE [main EXCEPT !.pc = "sleep", !.loop_count = (@ + 1) % 10]
        /\ UNCHANGED <<transactions, replaced, now, last_signals, decision, cycle, status>>

\* await asyncio.sleep(LOOP_SECONDS), in the try block or in the except
\* clause, returns: the while loop goes round
MainSleep ==
    /\ impl = "bot"
    /\ main.pc \in {"sleep", "except"}
    /\ main' = [main EXCEPT !.pc = "start"]
    /\ UNCHANGED <<impl, ledger, call, transactions, replaced, now, last_signals, decision, cycle, status>>

\* except KeyboardInterrupt (bot.py 1167-1169): break
MainInterrupt ==
    /\ impl = "bot"
    /\ main.pc # "stopped"
    /\ main' = [main EXCEPT !.pc = "stopped"]
    /\ call' = [op |-> "KeyboardInterrupt", value |-> None, effect |-> FALSE]
    /\ UNCHANGED <<impl, ledger, transactions, replaced, now, last_signals, decision, cycle, status>>

NextMain ==
    \/ MainResync
    \/ MainNoResync
    \/ MainRunBot
    \/ MainSleep
    \/ MainInterrupt

SpecMain == Init /\ [][NextMain]_vars

\* the event loop runs the only task: each step of main_loop that can be
\* taken is taken, and every sleep returns
SpecMainFair == SpecMain /\ WF_vars(MainResync \/ MainNoResync \/ MainRunBot \/ MainSleep)

\* C32: nothing but a KeyboardInterrupt leaves the loop of main_loop, and
\* after every cycle, whether run_bot returned or raised, a new cycle starts
\* (or the user interrupts the bot)
C32_LoopKeepsGoing ==
    /\ [][main'.pc = "stopped" => call'.op = "KeyboardInterrupt"]_vars
    /\ (main.pc \in {"sleep", "except"}) ~> (main.pc = "run_bot" \/ call.op = "KeyboardInterrupt")

\* a cycle has started after a cycle in which run_bot raised
C32_Witness ==
    /\ main.pc = "run_bot"
    /\ main.loop_count = 1
    /\ print_summary = "TypeError"

\* C33: periodic_resync is called in the first cycle and then in every 10th
\* cycle started, whether the cycles in between returned or raised
C33_ResyncSchedule ==
    [][main.pc = "start" /\ main'.pc = "run_bot"
       => IF call'.op = "periodic_resync"
          THEN CyclesSince \in {0, 10}
          ELSE CyclesSince \in 1..9]_vars

(***************************************************************************)
(* The start-up of bot.py: the module is executed from its first line to   *)
(* its last, each statement binding a global name; line 527 constructs the *)
(* module-level PositionTracker, whose __init__ (39-46) calls              *)
(* sync_with_coinbase (48-84).  A function looks its globals up when it    *)
(* runs: a name bound further down the module is not yet defined.          *)
(***************************************************************************)
\* the global names in the order in which the module binds them: the imports
\* (1-13), the constants (18-24), the classes and functions (38-500), the
\* tracker (527), the throttle and the web server (528-578), the credentials
\* and the client (588-662), the settings and functions of the bot (677-1145)
ModuleNames ==
    <<"os", "sys", "asyncio", "csv", "threading", "datetime", "load_dotenv", "json", "Flask", "RESTClient", "enhanced_should_buy", "CONFIG",
      "STARTING_BALANCE_USD", "MAX_POSITIONS", "MAX_EXPOSURE", "CASH_BUFFER", "MAX_PER_TRADE", "MIN_TRADE_SIZE", "RISK_PER_TRADE",
      "PositionTracker", "SignalThrottle", "get_real_time_price", "get_enhanced_live_price", "export_trade_history_to_csv",
      "position_tracker", "signal_throttle", "app", "bot_status", "run_flask_server", "API_KEY", "client",
      "TRADING_PAIRS", "LOOP_SECONDS", "SIMULATION", "fetch_candles", "check_tiered_exits", "analyze_and_trade",
      "fetch_real_coinbase_balances", "run_bot", "main_loop">>

\* the process starts: nothing is bound; the environment holds or lacks the
\* API credentials and the key file, and the account can or cannot be read
InitStartup ==
    /\ impl = "bot"
    /\ positions = [x \in {} |-> None]
    /\ trade_history = <<>>
    /\ total_pnl = Zero
    /\ cash_balance = Zero
    /\ starting_balance = Zero
    /\ call = [op |-> "import", value |-> None, effect |-> FALSE]
    /\ transactions = 0
    /\ replaced = FALSE
    /\ now = 0
    /\ last_signals = [x \in {} |-> None]
    /\ decision = None
    /\ cycle = [todo |-> TRADING_PAIRS, raised |-> {}, summary |-> "pending"]
    /\ status = [read |-> 0]
    /\ \E credentials \in BOOLEAN, key_file \in BOOLEAN, real_usd_balance \in RealUsdBalances :
          main = [pc |-> "module", statement |-> 1, globals |-> {}, loop_count |-> 0, consistent |-> {},
                  credentials |-> credentials, key_file |-> key_file, real_usd_balance |-> real_usd_balance]

\* a statement other than line 527 binds its name; line 594 raises without
\* credentials; after the last statement asyncio.run(main_loop()) starts
ModuleBind ==
    /\ main.pc = "module"
    /\ main.statement <= Len(ModuleNames)
    /\ ModuleNames[main.statement] # "position_tracker"
    /\ main' = IF ModuleNames[main.statement] = "client" /\ ~main.credentials
               THEN [main EXCEPT !.pc = "ValueError"]
               ELSE [main EXCEPT !.globals = @ \cup {ModuleNames[main.statement]},
                                 !.statement = @ + 1,
                                 !.pc = IF main.statement = Len(ModuleNames) THEN "start" ELSE "module"]
    /\ UNCHANGED <<impl, ledger, call, transactions, replaced, now, last_signals, decision, cycle, status>>

\* position_tracker = PositionTracker(): __init__ assigns the fields and
\* calls sync_with_coinbase
ModuleConstruct ==
    /\ main.pc = "module"
    /\ main.statement <= Len(ModuleNames)
    /\ ModuleNames[main.statement] = "position_tracker"
    /\ positions' = [x \in {} |-> None]
    /\ trade_history' = <<>>
    /\ total_pnl' = Zero
    /\ cash_balance' = Rat(STARTING_BALANCE_USD)
    /\ starting_balance' = Rat(STARTING_BALANCE_USD)
    /\ call' = [op |-> "__init__", value |-> None, effect |-> TRUE]
    /\ main' = [main EXCEPT !.pc = "sync_with_coinbase"]
    /\ UNCHANGED <<impl, transactions, replaced, now, last_signals, decision, cycle, status>>

\* sync_with_coinbase: the call of fetch_real_coinbase_balances raises
\* NameError while that name is unbound, and nothing catches it: the
\* execution of the module ends.  With the name bound, a balance that is
\* not None replaces cash_balance and starting_balance, and None leaves the
\* simulation values
ModuleSync ==
    /\ main.pc = "sync_with_coinbase"
    /\ IF "fetch_real_coinbase_balances" \notin main.globals
       THEN /\ main' = [main EXCEPT !.pc = "NameError"]
            /\ call' = [op |-> "sync_with_coinbase", value |-> "NameError", effect |-> FALSE]
            /\ UNCHANGED <<cash_balance, starting_balance>>
       ELSE /\ main' = [main EXCEPT !.pc = "module", !.statement = @ + 1,
                                    !.globals = @ \cup {"position_tracker"}]
            /\ call' = [op |-> "sync_with_coinbase", value |-> None, effect |-> main.real_usd_balance # None]
            /\ cash_balance' = IF main.real_usd_balance # None THEN main.real_usd_balance ELSE cash_balance
            /\ starting_balance' = cash_balance'
    /\ UNCHANGED <<impl, positions, trade_history, total_pnl, transactions, replaced, now, last_signals, decision, cycle, status>>

NextStartup ==
    \/ ModuleBind
    \/ ModuleConstruct
    \/ ModuleSync

SpecStartup == InitStartup /\ [][NextStartup]_vars

\* C34: when the account balances cannot be obtained, the construction of
\* the module-level tracker does not end with an exception, and the tracker
\* it leaves has cash_balance = starting_balance = STARTING_BALANCE_USD and
\* no positions
C34_StartupFallback ==
    main.real_usd_balance = None /\ call.op = "sync_with_coinbase"
    => /\ main.pc # "NameError"
       /\ cash_balance = Rat(STARTING_BALANCE_USD)
       /\ starting_balance = Rat(STARTING_BALANCE_USD)
       /\ positions = [x \in {} |-> None]

(***************************************************************************)
(* The quantity a position has sold, read off the trade records.           *)
(***************************************************************************)
RECURSIVE SoldQuantity(_, _)
\* the sum of the quantities of the exit records of a pair
SoldQuantity(history, pair) ==
    IF history = <<>> THEN Zero
    ELSE LET record == Head(history)
             exit == /\ record.pair = pair
                     /\ IF "action" \in DOMAIN record THEN record.action # "BUY" ELSE TRUE
         IN  Add(IF exit THEN record.quantity ELSE Zero, SoldQuantity(Tail(history), pair))

\* C35: when a bot partial_close_position or a portfolio execute_tier_exit
\* removes a position, the quantities of the position's exit records add up
\* to the quantity the position was opened with
C35_NothingDropped ==
    [][\A pair \in DOMAIN positions :
          /\ call'.op \in {"partial_close_position", "execute_tier_exit"}
          /\ pair \notin DOMAIN positions'
          => SoldQuantity(trade_history', pair) = Original(positions[pair])]_vars

\* C36: the throttle timestamp of a pair changes only in a call of
\* analyze_and_trade that opens a position for the pair
C36_ThrottleOnlyOnEntry ==
    [][\A pair \in DOMAIN last_signals' :
          (pair \notin DOMAIN last_signals \/ last_signals'[pair] # last_signals[pair])
          => pair \in DOMAIN positions' /\ pair \notin DOMAIN positions]_vars

\* whether a trade record is an exit: the bot's BUY records are entries,
\* every record of the portfolio tracker is an exit
IsExit(record) == IF "action" \in DOMAIN record THEN record.action # "BUY" ELSE TRUE

RECURSIVE RecordedPnl(_)
\* the sum of pnl_usd over the exit records
RecordedPnl(history) ==
    IF history = <<>> THEN Zero
    ELSE Add(IF IsExit(Head(history)) THEN Head(history).pnl_usd ELSE Zero,
             RecordedPnl(Tail(history)))

\* C37: total_pnl is the sum of pnl_usd over the exit records of
\* trade_history, and the pnl_usd of every exit record is
\* (exit_price - entry_price) x quantity
C37_PnlEqualsRecords ==
    /\ total_pnl = RecordedPnl(trade_history)
    /\ \A i \in 1..Len(trade_history) :
          IsExit(trade_history[i])
          => trade_history[i].pnl_usd
                 = Mul(Sub(trade_history[i].exit_price, trade_history[i].entry_price),
                       trade_history[i].quantity)

\* two exits with a gain or a loss are on record
C37_Witness ==
    /\ Len(trade_history) >= 2
    /\ IsExit(trade_history[Len(trade_history)])
    /\ IsExit(trade_history[Len(trade_history) - 1])
    /\ trade_history[Len(trade_history)].pnl_usd # Zero
    /\ trade_history[Len(trade_history) - 1].pnl_usd # Zero
    /\ call.op \in {"partial_close_position", "close_position", "execute_tier_exit"}

\* C38: after any sequence of open_position, partial close and
\* close_position calls at positive prices the cash balance is not negative
C38_CashNotNegative == Le(Zero, cash_balance)

\* three transactions have been made and part of the cash is held in at
\* least two positions
C38_Witness ==
    /\ Lt(cash_balance, Rat(STARTING_BALANCE_USD))
    /\ Cardinality(DOMAIN positions) >= 2
    /\ call.op \in {"open_position", "partial_close_position", "close_position", "execute_tier_exit"}
    /\ transactions = MaxTransactions

(***************************************************************************)
(* The buy filter of trading_strategy.py (enhanced_should_buy, 7-99) on    *)
(* the indicators calculate_all_indicators returns (indicators.py          *)
(* 124-162).  With 50 candles or more every indicator is a number; the     *)
(* signal line is 0.9 x the MACD line (indicators.py 76).                  *)
(***************************************************************************)
RSI_OVERSOLD_THRESHOLD == 32

RSI_SUPER_OVERSOLD_THRESHOLD == 25

MAX_VOLATILITY_RATIO == Frac(3, 100)

\* Python's truth value of an indicator: None and 0.0 are false
Truthy(x) == x # None /\ x # Zero

\* the first component of what enhanced_should_buy returns
trading_strategy_enhanced_should_buy(candles, current_price, current_rsi, ema_50, macd_line, signal_line, current_atr) ==
    IF candles < 50 THEN FALSE
    ELSE IF ~(Truthy(current_rsi) /\ Truthy(ema_50) /\ Truthy(macd_line) /\ Truthy(signal_line) /\ Truthy(current_atr))
    THEN FALSE
    ELSE LET ema_uptrend == Lt(ema_50, current_price)
             macd_bullish == Lt(signal_line, macd_line)
             volatility_ok == Lt(Div(current_atr, current_price), MAX_VOLATILITY_RATIO)
             rsi_oversold == Lt(current_rsi, Rat(RSI_OVERSOLD_THRESHOLD))
             super_oversold == Lt(current_rsi, Rat(RSI_SUPER_OVERSOLD_THRESHOLD))
             basic_conditions == rsi_oversold /\ ema_uptrend /\ volatility_ok
             emergency_oversold == super_oversold /\ ema_uptrend /\ volatility_ok
         IN  (basic_conditions /\ macd_bullish) \/ emergency_oversold

\* the closing prices the filter is asked about, around an EMA-50 of 10
FilterPrices == {Rat(9), Rat(10), Rat(12)}

\* RSI readings: no gain in 14 periods, and values around the two thresholds
FilterRsi == {Zero, Rat(20), Rat(25), Rat(30), Rat(32), Rat(50)}

\* MACD lines: falling, flat and rising
FilterMacd == {Rat(-1), Zero, Rat(1)}

\* one call of enhanced_should_buy; below 50 candles no indicator is read
BuyFilter ==
    \E candles \in CandleCounts, current_price \in FilterPrices, current_rsi \in FilterRsi, macd_line \in FilterMacd, current_atr \in AtrInputs(60) :
        LET signal_line == Mul(macd_line, Frac(9, 10))
            ema_50 == Rat(10)
        IN  /\ decision' = [pair |-> TradePair, candles |-> candles, current_price |-> current_price,
                            current_rsi |-> current_rsi, ema_50 |-> ema_50, macd_line |-> macd_line,
                            signal_line |-> signal_line, current_atr |-> current_atr,
                            action |-> IF trading_strategy_enhanced_should_buy(candles, current_price, current_rsi, ema_50, macd_line, signal_line, current_atr)
                                       THEN "BUY" ELSE "HOLD"]
            /\ call' = [op |-> "enhanced_should_buy", value |-> decision'.action = "BUY", effect |-> FALSE]
            /\ UNCHANGED <<impl, ledger, transactions, replaced, now, last_signals, cycle, status, main>>

NextFilter == BuyFilter

SpecFilter == Init /\ [][NextFilter]_vars

\* C39: on computed indicators enhanced_should_buy returns true exactly when
\* price > EMA50, ATR/price < MAX_VOLATILITY_RATIO, RSI < RSI_OVERSOLD_THRESHOLD
\* and (MACD line > signal line or RSI < RSI_SUPER_OVERSOLD_THRESHOLD)
C39_BuyFilter ==
    call.op = "enhanced_should_buy" /\ decision.candles >= 50
    => (decision.action = "BUY"
        <=> /\ Lt(decision.ema_50, decision.current_price)
            /\ Lt(Div(decision.current_atr, decision.current_price), MAX_VOLATILITY_RATIO)
            /\ Lt(decision.current_rsi, Rat(RSI_OVERSOLD_THRESHOLD))
            /\ \/ Lt(decision.signal_line, decision.macd_line)
               \/ Lt(decision.current_rsi, Rat(RSI_SUPER_OVERSOLD_THRESHOLD)))

====
